---- MODULE Spec2Model ----
(***************************************************************************)
(* Model of the policy-audit pipeline: the nine stage functions that       *)
(* graph.py chains over one shared state dict, with the citation verifier  *)
(* of compare_policies and the policy-pair resolution.                     *)
(*                                                                         *)
(* Python str values are sequences of one-character strings, so that "in", *)
(* strip() and split() are computed and not assumed.  A Python dict is a   *)
(* sequence of [k, v] entries with distinct keys, in insertion order.      *)
(***************************************************************************)
EXTENDS Integers, Sequences, FiniteSets, TLC

VARIABLES
    state,       \* the values held by the shared state dict
    has,         \* the keys present in the state dict
    pc,          \* the graph node about to run, or END
    raised,      \* the exception that ended the run, or NoError
    executed,    \* the stage functions entered so far, in order
    writes,      \* the <<stage, key>> assignments made to the dict, in order
    llm_calls,   \* the stages that invoked the language model, in order
    fs,          \* the file system: what each policy path holds
    llm,         \* the language model of this run: its answer at each call site
    frame,       \* locals of the last compare_policies call that returned
    call         \* a call of one helper function on its own: arguments and result

vars == <<state, has, pc, raised, executed, writes, llm_calls, fs, llm, frame, call>>

----------------------------------------------------------------------------
(* Bounds of the model *)

\* longest caller-supplied selected_policy_paths
MaxSel == 2
\* most gaps in one oracle response
MaxGaps == 1
\* most claimed refs in one oracle response, over all gaps and both sides
MaxRefs == 2

----------------------------------------------------------------------------
(* Python str and list primitives *)

\* q in t, for two str values
IsSubstring(q, t) ==
    \E i \in 0..(Len(t) - Len(q)) : SubSeq(t, i + 1, i + Len(q)) = q

Whitespace == {" ", "\n", "\t"}

RECURSIVE LStrip(_)
LStrip(s) ==
    IF s # <<>> /\ Head(s) \in Whitespace THEN LStrip(Tail(s)) ELSE s

RECURSIVE RStrip(_)
RStrip(s) ==
    IF s # <<>> /\ s[Len(s)] \in Whitespace
    THEN RStrip(SubSeq(s, 1, Len(s) - 1))
    ELSE s

\* str.strip()
Strip(s) == LStrip(RStrip(s))

LowerChar(c) ==
    CASE c = "W" -> "w"
      [] c = "I" -> "i"
      [] c = "N" -> "n"
      [] c = "A" -> "a"
      [] c = "B" -> "b"
      [] c = "C" -> "c"
      [] c = "D" -> "d"
      [] c = "E" -> "e"
      [] c = "F" -> "f"
      [] c = "G" -> "g"
      [] c = "L" -> "l"
      [] c = "O" -> "o"
      [] c = "R" -> "r"
      [] c = "T" -> "t"
      [] c = "U" -> "u"
      [] OTHER -> c

\* str.lower()
Lower(s) == [i \in 1..Len(s) |-> LowerChar(s[i])]

\* xs[:n] for n >= 0
Take(xs, n) == SubSeq(xs, 1, IF n < Len(xs) THEN n ELSE Len(xs))

Range(xs) == {xs[i] : i \in 1..Len(xs)}

SeqsUpTo(S, n) == UNION {[1..m -> S] : m \in 0..n}

----------------------------------------------------------------------------
(* Python dict, insertion-ordered *)

DictKeys(d) == [i \in 1..Len(d) |-> d[i].k]

DictHas(d, key) == \E i \in 1..Len(d) : d[i].k = key

\* d[key], for a key that is present
DictAt(d, key) == d[CHOOSE i \in 1..Len(d) : d[i].k = key].v

\* d.get(key, default)
DictGet(d, key, default) == IF DictHas(d, key) THEN DictAt(d, key) ELSE default

\* d[key] = value
DictSet(d, key, value) ==
    IF DictHas(d, key)
    THEN [i \in 1..Len(d) |-> IF d[i].k = key THEN [k |-> key, v |-> value] ELSE d[i]]
    ELSE Append(d, [k |-> key, v |-> value])

----------------------------------------------------------------------------
(* The policy documents of the model *)

\* run_graph.py CIS_PATH and PAN_PATH, shortened to the parts the name match reads
CIS_PATH == <<"C", "I", "S", "_", "C", "o", "n", "t", "r", "o", "l", "s">>
PAN_PATH == <<"P", "a", "n">>
\* a path that holds both names, and one that holds neither
BOTH_PATH == <<"P", "a", "n", "C", "I", "S">>
OTHER_PATH == <<"x">>

PolicyKeys == {CIS_PATH, PAN_PATH, BOTH_PATH, OTHER_PATH}

\* the value of dict.get on a missing metadata key
None == 0

NoError == "none"
END == "__end__"

\* what extract_pdf_text returns for a readable file at path p
PolicyText(p) ==
    CASE p = CIS_PATH -> <<"a", "b", "\n", "c", " ", "d", "\n">>
      [] p = PAN_PATH -> <<"c", "d", "\n", "\n", "e", "\n">>
      [] p = BOTH_PATH -> <<"a", "b", "\n">>
      [] OTHER -> <<"e", "f", "\n">>

\* page values: the page label a reader records (a str), the page number the
\* oracle may give back (an int), and None when the metadata has no page
PageStr == [type |-> "str", text |-> "1"]
PageInt == [type |-> "int", text |-> "1"]
PageNone == [type |-> "NoneType", text |-> "None"]

Snippet(src, page, ls, le, text) ==
    [source |-> src, page |-> page, line_start |-> ls, line_end |-> le, text |-> text]

\* An index is what its query engine and retriever give back: the source
\* nodes of the focus query, the nodes of one keyword retrieval, the answer.
\* The index run_graph.py prebuilds holds line-window nodes with page and
\* line metadata.
PrebuiltIndex(p) ==
    CASE p = CIS_PATH ->
            [source_nodes |-> << Snippet(p, PageStr, 1, 2, <<"a", "b", "\n", "c", " ", "d">>),
                                 Snippet(p, PageStr, 1, 2, <<"z">>),
                                 Snippet(p, PageStr, 2, 2, <<"c", " ", "d">>) >>,
             retrieved |-> <<>>,
             answer |-> "controls of CIS"]
      [] p = PAN_PATH ->
            [source_nodes |-> <<>>,
             retrieved |-> << Snippet(p, PageStr, 1, 3, <<"c", "d", "\n", "\n", "e">>),
                              Snippet(p, PageStr, 1, 3, <<"c", "d", "\n", "\n", "e">>) >>,
             answer |-> "controls of Pan"]
      [] p = BOTH_PATH ->
            [source_nodes |-> << Snippet(p, PageStr, 1, 1, <<"a", "b">>) >>,
             retrieved |-> <<>>,
             answer |-> "controls of PanCIS"]
      [] OTHER ->
            [source_nodes |-> <<>>,
             retrieved |-> <<>>,
             answer |-> "controls of x"]

\* nodes/policy.py builds its index from one Document whose metadata is the
\* source alone: its nodes carry no page and no line range.
StageIndex(p, text) ==
    [source_nodes |-> << Snippet(p, PageNone, None, None, text) >>,
     retrieved |-> <<>>,
     answer |-> "controls"]

----------------------------------------------------------------------------
(* The graph of graph.py *)

\* g.set_entry_point
EntryPoint == "plan_evidence"

\* Edge with compare_policies wired straight to finalize_report
Edge_SkipsValidation(node) ==
    CASE node = "plan_evidence" -> "load_logs"
      [] node = "load_logs" -> "analyze_evidence"
      [] node = "analyze_evidence" -> "build_policy_indexes"
      [] node = "build_policy_indexes" -> "select_policies"
      [] node = "select_policies" -> "read_policies"
      [] node = "read_policies" -> "compare_policies"
      [] node = "compare_policies" -> "finalize_report"
      [] node = "validate_vs_evidence" -> "finalize_report"
      [] node = "finalize_report" -> END

\* g.add_edge(a, b), as the successor of a
Edge(node) ==
    CASE node = "plan_evidence" -> "load_logs"
      [] node = "load_logs" -> "analyze_evidence"
      [] node = "analyze_evidence" -> "build_policy_indexes"
      [] node = "build_policy_indexes" -> "select_policies"
      [] node = "select_policies" -> "read_policies"
      [] node = "read_policies" -> "compare_policies"
      [] node = "compare_policies" -> "validate_vs_evidence"
      [] node = "validate_vs_evidence" -> "finalize_report"
      [] node = "finalize_report" -> END

\* AtNode with the exception swallowed: the graph goes on from where it raised
AtNode_IgnoresRaise(node) == pc = node

\* a node may run: the graph is at it and nothing has raised
AtNode(node) == pc = node /\ raised = NoError

\* the node returns the state: the graph moves along its edge
Return(node, keys) ==
    /\ pc' = Edge(node)
    /\ raised' = NoError
    /\ executed' = Append(executed, node)
    /\ has' = has \cup Range(keys)
    /\ writes' = writes \o [i \in 1..Len(keys) |-> <<node, keys[i]>>]

\* the node raises after assigning keys: the exception leaves invoke, no edge is followed
Raise(node, error, keys) ==
    /\ pc' = pc
    /\ raised' = error
    /\ executed' = Append(executed, node)
    /\ has' = has \cup Range(keys)
    /\ writes' = writes \o [i \in 1..Len(keys) |-> <<node, keys[i]>>]

\* llm.invoke at a call site: the answer of this run's model there
Invoke(site) == llm[site]

\* state.get(key, default)
Get(key, default) == IF key \in has THEN state[key] ELSE default

----------------------------------------------------------------------------
(* nodes/evidence.py *)

WINDOWS == <<"w", "i", "n", "d", "o", "w", "s">>
EVENT_4625 == <<"4", "6", "2", "5">>
DEFAULT_GLOB == "logs/*.csv"
\* all_df.head(500)
HeadRows == 500

plan_evidence ==
    /\ AtNode("plan_evidence")
    /\ LET threat == Get("threat", <<>>)
       IN state' = [state EXCEPT !.evidence_plan =
                       [need_windows_logs |->
                            \/ IsSubstring(WINDOWS, Lower(threat))
                            \/ IsSubstring(EVENT_4625, threat),
                        log_csv_glob |-> Get("log_csv_glob", DEFAULT_GLOB)]]
    /\ Return("plan_evidence", <<"evidence_plan">>)
    /\ UNCHANGED <<llm_calls, fs, llm, frame, call>>

\* the frames of the files pd.read_csv could read, concatenated
RECURSIVE ReadFrames(_)
ReadFrames(files) ==
    IF files = <<>> THEN <<>>
    ELSE (IF Head(files).readable
          THEN [i \in 1..Len(Head(files).rows) |->
                   [row |-> Head(files).rows[i], source_file |-> Head(files).path]]
          ELSE <<>>) \o ReadFrames(Tail(files))

RECURSIVE AnyReadable(_)
AnyReadable(files) ==
    files # <<>> /\ (Head(files).readable \/ AnyReadable(Tail(files)))

load_logs ==
    /\ AtNode("load_logs")
    /\ LET plan == Get("evidence_plan", [need_windows_logs |-> FALSE, log_csv_glob |-> DEFAULT_GLOB])
           paths == IF plan.log_csv_glob = fs.log_glob THEN fs.logs ELSE <<>>
           all_df == ReadFrames(paths)
           shown == Take(all_df, HeadRows)
       IN IF AnyReadable(paths)
          THEN state' = [state EXCEPT !.logs_df = all_df,
                                      !.logs_text = [i \in 1..Len(shown) |-> shown[i].row]]
          ELSE state' = [state EXCEPT !.logs_df = <<>>,
                                      !.logs_text = <<"NO_LOGS_FOUND">>]
    /\ Return("load_logs", <<"logs_df", "logs_text">>)
    /\ UNCHANGED <<llm_calls, fs, llm, frame, call>>

analyze_evidence ==
    /\ AtNode("analyze_evidence")
    /\ llm_calls' = Append(llm_calls, "analyze_evidence")
    /\ LET resp == Invoke("analyze")
       IN IF resp.kind = "raise"
          THEN /\ Raise("analyze_evidence", "OracleError", <<>>)
               /\ UNCHANGED state
          ELSE /\ state' = [state EXCEPT !.evidence_summary = resp.content]
               /\ Return("analyze_evidence", <<"evidence_summary">>)
    /\ UNCHANGED <<fs, llm, frame, call>>

----------------------------------------------------------------------------
(* nodes/policy.py *)

\* the loop of build_policy_indexes over policy_paths: the dicts it has built,
\* or the exception extract_pdf_text raised on a file it could not read
RECURSIVE BuildIndexes(_, _, _)
BuildIndexes(paths, indexes, texts) ==
    IF paths = <<>> THEN [error |-> NoError, indexes |-> indexes, texts |-> texts]
    ELSE LET p == Head(paths)
         IN IF fs.files[p] = "missing"
            THEN BuildIndexes(Tail(paths), indexes, texts)
            ELSE IF fs.files[p] = "broken"
            THEN [error |-> "PdfReadError", indexes |-> indexes, texts |-> texts]
            ELSE BuildIndexes(Tail(paths),
                              DictSet(indexes, p, StageIndex(p, PolicyText(p))),
                              DictSet(texts, p, PolicyText(p)))

\* if state.get("policy_indexes") and state.get("policy_texts")
\* Preseeded with the skip lost: the stage always rebuilds
Preseeded_Never(indexes, texts) == indexes # indexes /\ texts # texts

Preseeded(indexes, texts) == indexes # <<>> /\ texts # <<>>

build_policy_indexes ==
    /\ AtNode("build_policy_indexes")
    /\ IF Preseeded(Get("policy_indexes", <<>>), Get("policy_texts", <<>>))
       THEN /\ UNCHANGED state
            /\ Return("build_policy_indexes", <<>>)
       ELSE LET built == BuildIndexes(Get("policy_paths", <<>>), <<>>, <<>>)
            IN IF built.error # NoError
               THEN /\ UNCHANGED state
                    /\ Raise("build_policy_indexes", built.error, <<>>)
               ELSE /\ state' = [state EXCEPT !.policy_indexes = built.indexes,
                                              !.policy_texts = built.texts]
                    /\ Return("build_policy_indexes", <<"policy_indexes", "policy_texts">>)
    /\ UNCHANGED <<llm_calls, fs, llm, frame, call>>

\* the names nodes/policy.py binds at module level (its import lines)
PolicyModuleNames ==
    {"os", "VectorStoreIndex", "Document", "extract_pdf_text", "ChatOpenAI", "HumanMessage"}

DefaultMaxPolicyChoices == 2

\* the try/except of select_policies: json.loads(resp.content), kept if it is a
\* list; a name the module does not bind raises NameError inside the try
SelectChosen(resp, candidates, max_k) ==
    IF "json" \notin PolicyModuleNames THEN Take(candidates, max_k)
    ELSE IF resp.kind = "json_list" THEN resp.value
    ELSE Take(candidates, max_k)

\* Preselected asking for a third path
Preselected_NeedsThree(pre) == pre # <<>> /\ Len(pre) >= 3

\* if pre and isinstance(pre, list) and len(pre) >= 2
Preselected(pre) == pre # <<>> /\ Len(pre) >= 2

select_policies ==
    /\ AtNode("select_policies")
    /\ LET pre == Get("selected_policy_paths", <<>>)
       IN IF Preselected(pre)
          THEN /\ UNCHANGED <<state, llm_calls>>
               /\ Return("select_policies", <<>>)
          ELSE LET resp == Invoke("select")
                   candidates == DictKeys(Get("policy_texts", <<>>))
                   max_k == Get("max_policy_choices", DefaultMaxPolicyChoices)
                   chosen == SelectChosen(resp, candidates, max_k)
               IN /\ llm_calls' = Append(llm_calls, "select_policies")
                  /\ IF resp.kind = "raise"
                     THEN /\ UNCHANGED state
                          /\ Raise("select_policies", "OracleError", <<>>)
                     ELSE /\ state' = [state EXCEPT !.selected_policy_paths = Take(chosen, max_k)]
                          /\ Return("select_policies", <<"selected_policy_paths">>)
    /\ UNCHANGED <<fs, llm, frame, call>>

\* the keyword queries of the retriever fallback
KeywordQueries == 8

RECURSIVE Repeat(_, _)
Repeat(xs, n) == IF n = 0 THEN <<>> ELSE xs \o Repeat(xs, n - 1)

SnippetKey(s) == <<s.source, s.page, s.line_start, s.line_end>>

\* de-dup by (source, page, range), keeping the first of each
RECURSIVE Dedup(_, _)
Dedup(snips, seen) ==
    IF snips = <<>> THEN <<>>
    ELSE IF SnippetKey(Head(snips)) \in seen THEN Dedup(Tail(snips), seen)
    ELSE <<Head(snips)>> \o Dedup(Tail(snips), seen \cup {SnippetKey(Head(snips))})

\* the snippets read_policies takes from one index
SnippetsOf(idx) ==
    IF idx.source_nodes # <<>> THEN idx.source_nodes
    ELSE Dedup(Repeat(idx.retrieved, KeywordQueries), {})

\* the loop of read_policies over the selected paths
RECURSIVE ReadSelected(_, _, _, _)
ReadSelected(selected, indexes, summaries, all_snippets) ==
    IF selected = <<>> THEN [summaries |-> summaries, all_snippets |-> all_snippets]
    ELSE LET p == Head(selected)
         IN IF ~DictHas(indexes, p)
            THEN ReadSelected(Tail(selected), indexes, summaries, all_snippets)
            ELSE ReadSelected(Tail(selected), indexes,
                              DictSet(summaries, p, DictAt(indexes, p).answer),
                              DictSet(all_snippets, p, SnippetsOf(DictAt(indexes, p))))

read_policies ==
    /\ AtNode("read_policies")
    /\ LET read == ReadSelected(Get("selected_policy_paths", <<>>),
                                Get("policy_indexes", <<>>), <<>>, <<>>)
       IN state' = [state EXCEPT !.policy_control_summaries = read.summaries,
                                 !.policy_snippets = read.all_snippets]
    /\ Return("read_policies", <<"policy_control_summaries", "policy_snippets">>)
    /\ UNCHANGED <<llm_calls, fs, llm, frame, call>>

----------------------------------------------------------------------------
(* nodes/gap_analysis.py: the citation resolver *)

\* str.splitlines(): the lines between line breaks; a final break ends the last line
RECURSIVE SplitLinesFrom(_, _)
SplitLinesFrom(s, cur) ==
    IF s = <<>> THEN (IF cur = <<>> THEN <<>> ELSE <<cur>>)
    ELSE IF Head(s) = "\n" THEN <<cur>> \o SplitLinesFrom(Tail(s), <<>>)
    ELSE SplitLinesFrom(Tail(s), Append(cur, Head(s)))

SplitLines(s) == SplitLinesFrom(s, <<>>)

number_lines(text) ==
    LET lines == SplitLines(text)
    IN [i \in 1..Len(lines) |-> [ln |-> i, txt |-> lines[i]]]

\* str.split(): the maximal runs of non-whitespace
RECURSIVE SplitWordsFrom(_, _)
SplitWordsFrom(s, cur) ==
    IF s = <<>> THEN (IF cur = <<>> THEN <<>> ELSE <<cur>>)
    ELSE IF Head(s) \in Whitespace
    THEN (IF cur = <<>> THEN <<>> ELSE <<cur>>) \o SplitWordsFrom(Tail(s), <<>>)
    ELSE SplitWordsFrom(Tail(s), Append(cur, Head(s)))

RECURSIVE JoinSpace(_)
JoinSpace(words) ==
    IF words = <<>> THEN <<>>
    ELSE IF Len(words) = 1 THEN Head(words)
    ELSE Head(words) \o <<" ">> \o JoinSpace(Tail(words))

\* " ".join(s.split())
NormalizeSpaces(s) == JoinSpace(SplitWordsFrom(s, <<>>))

\* difflib find_longest_match on a[alo+1..ahi], b[blo+1..bhi] without junk: the
\* longest common block, the earliest in a, and of those the earliest in b
LongestMatch(a, alo, ahi, b, blo, bhi) ==
    LET Blocks == {<<i, j, k>> \in (alo..ahi) \X (blo..bhi) \X (1..(ahi - alo)) :
                       /\ i + k <= ahi
                       /\ j + k <= bhi
                       /\ SubSeq(a, i + 1, i + k) = SubSeq(b, j + 1, j + k)}
    IN IF Blocks = {} THEN <<alo, blo, 0>>
       ELSE CHOOSE m \in Blocks :
                \A o \in Blocks :
                    \/ m[3] > o[3]
                    \/ m[3] = o[3] /\ m[1] < o[1]
                    \/ m[3] = o[3] /\ m[1] = o[1] /\ m[2] <= o[2]

\* the total size of difflib's matching blocks
RECURSIVE Matches(_, _, _, _, _, _)
Matches(a, alo, ahi, b, blo, bhi) ==
    IF alo >= ahi \/ blo >= bhi THEN 0
    ELSE LET m == LongestMatch(a, alo, ahi, b, blo, bhi)
         IN IF m[3] = 0 THEN 0
            ELSE m[3] + Matches(a, alo, m[1], b, blo, m[2])
                      + Matches(a, m[1] + m[3], ahi, b, m[2] + m[3], bhi)

\* SequenceMatcher(None, a, b).ratio() as the fraction <<2M, T>>
Ratio(a, b) ==
    IF Len(a) + Len(b) = 0 THEN <<1, 1>>
    ELSE <<2 * Matches(a, 0, Len(a), b, 0, Len(b)), Len(a) + Len(b)>>

\* cutoff = 0.80, as the fraction 4/5
CutoffNum == 4
CutoffDen == 5
max_fuzzy_candidates == 3

CodePoint(c) ==
    CASE c = "\t" -> 9 [] c = "\n" -> 10 [] c = " " -> 32
      [] c = "A" -> 65 [] c = "C" -> 67 [] c = "D" -> 68
      [] c = "a" -> 97 [] c = "b" -> 98 [] c = "c" -> 99 [] c = "d" -> 100
      [] c = "e" -> 101 [] c = "f" -> 102 [] c = "z" -> 122
      [] OTHER -> 120

\* x < y for two str values
RECURSIVE StrLess(_, _)
StrLess(x, y) ==
    IF y = <<>> THEN FALSE
    ELSE IF x = <<>> THEN TRUE
    ELSE IF CodePoint(Head(x)) # CodePoint(Head(y))
    THEN CodePoint(Head(x)) < CodePoint(Head(y))
    ELSE StrLess(Tail(x), Tail(y))

\* (score, x) < (score, y) for the tuples get_close_matches ranks
ScoredLess(p, q) ==
    \/ p.score[1] * q.score[2] < q.score[1] * p.score[2]
    \/ p.score[1] * q.score[2] = q.score[1] * p.score[2] /\ StrLess(p.x, q.x)

\* heapq.nlargest(n, result): the n largest, largest first
RECURSIVE NLargest(_, _)
NLargest(n, result) ==
    IF n = 0 \/ result = <<>> THEN <<>>
    ELSE LET top == CHOOSE i \in 1..Len(result) :
                        \A j \in 1..Len(result) : ~ScoredLess(result[i], result[j])
         IN <<result[top]>> \o
            NLargest(n - 1, [j \in 1..(Len(result) - 1) |->
                                IF j < top THEN result[j] ELSE result[j + 1]])

\* difflib.get_close_matches(word, possibilities, n, cutoff)
GetCloseMatches(word, possibilities, n) ==
    LET scored == [i \in 1..Len(possibilities) |->
                      [score |-> Ratio(possibilities[i], word), x |-> possibilities[i]]]
        result == SelectSeq(scored, LAMBDA p : p.score[1] * CutoffDen >= CutoffNum * p.score[2])
        best == NLargest(n, result)
    IN [i \in 1..Len(best) |-> best[i].x]

\* { normalized text: ln for ln, t in numbered_lines }: a later line replaces an earlier
NormalizedMap(numbered_lines, c) ==
    LET at == {i \in 1..Len(numbered_lines) : NormalizeSpaces(numbered_lines[i].txt) = c}
    IN IF at = {} THEN None
       ELSE numbered_lines[CHOOSE i \in at : \A j \in at : j <= i].ln

\* find_best_line_numbers returning at the first exact hit
find_best_line_numbers_FirstHit(numbered_lines, quote) ==
    IF quote = <<>> THEN <<>>
    ELSE LET quote_norm == NormalizeSpaces(quote)
             exact == SelectSeq(numbered_lines,
                                LAMBDA l : IsSubstring(quote_norm, NormalizeSpaces(l.txt)))
             candidates == GetCloseMatches(
                               quote_norm,
                               [i \in 1..Len(numbered_lines) |->
                                   NormalizeSpaces(numbered_lines[i].txt)],
                               max_fuzzy_candidates)
             mapped == [i \in 1..Len(candidates) |-> NormalizedMap(numbered_lines, candidates[i])]
         IN IF exact # <<>> THEN << exact[1].ln >>
            ELSE SelectSeq(mapped, LAMBDA ln : ln # None)

\* find_best_line_numbers searching for the quote as given, not normalized
find_best_line_numbers_QuoteAsGiven(numbered_lines, quote) ==
    IF quote = <<>> THEN <<>>
    ELSE LET exact == SelectSeq(numbered_lines,
                                LAMBDA l : IsSubstring(quote, NormalizeSpaces(l.txt)))
             hits == [i \in 1..Len(exact) |-> exact[i].ln]
             candidates == GetCloseMatches(
                               quote,
                               [i \in 1..Len(numbered_lines) |->
                                   NormalizeSpaces(numbered_lines[i].txt)],
                               max_fuzzy_candidates)
             mapped == [i \in 1..Len(candidates) |-> NormalizedMap(numbered_lines, candidates[i])]
         IN IF hits # <<>> THEN hits
            ELSE SelectSeq(mapped, LAMBDA ln : ln # None)

find_best_line_numbers(numbered_lines, quote) ==
    IF quote = <<>> THEN <<>>
    ELSE LET quote_norm == NormalizeSpaces(quote)
             exact == SelectSeq(numbered_lines,
                                LAMBDA l : IsSubstring(quote_norm, NormalizeSpaces(l.txt)))
             hits == [i \in 1..Len(exact) |-> exact[i].ln]
             candidates == GetCloseMatches(
                               quote_norm,
                               [i \in 1..Len(numbered_lines) |->
                                   NormalizeSpaces(numbered_lines[i].txt)],
                               max_fuzzy_candidates)
             mapped == [i \in 1..Len(candidates) |-> NormalizedMap(numbered_lines, candidates[i])]
         IN IF hits # <<>> THEN hits
            ELSE SelectSeq(mapped, LAMBDA ln : ln # None)

\* the numbered cache build_numbered_policy_cache stores, from policy_texts
NumberedPolicies(policy_texts) ==
    [i \in 1..Len(policy_texts) |->
        [k |-> policy_texts[i].k, v |-> number_lines(policy_texts[i].v)]]

----------------------------------------------------------------------------
(* nodes/gap_analysis.py: compare_policies *)

CIS_CONTROLS == <<"C", "I", "S", "_", "C", "o", "n", "t", "r", "o", "l", "s">>
CIS == <<"C", "I", "S">>
PAN_POLICY ==
    <<"P", "a", "n", " ", "U", "s", "e", "r", " ", "A", "c", "c", "o", "u", "n", "t",
      " ", "P", "o", "l", "i", "c", "y">>
PAN == <<"P", "a", "n">>

\* None as a policy key: no str, and falsy like the empty str
NoKey == <<>>
Truthy(key) == key # <<>>

IsCisName(p) == IsSubstring(CIS_CONTROLS, p) \/ IsSubstring(CIS, p)
IsPanName(p) == IsSubstring(PAN_POLICY, p) \/ IsSubstring(PAN, p)

\* next((p for p in keys if ...), None)
FirstCis(keys) ==
    LET at == {i \in 1..Len(keys) : IsCisName(keys[i])}
    IN IF at = {} THEN NoKey ELSE keys[CHOOSE i \in at : \A j \in at : i <= j]

FirstPan(keys) ==
    LET at == {i \in 1..Len(keys) : IsPanName(keys[i])}
    IN IF at = {} THEN NoKey ELSE keys[CHOOSE i \in at : \A j \in at : i <= j]

\* ResolvePair with the caller's selection tried before the names
ResolvePair_SelectedFirst(keys, selected) ==
    LET cis0 == FirstCis(keys)
        pan0 == FirstPan(keys)
        use_selected == Len(selected) >= 2
        cis1 == IF use_selected THEN selected[1] ELSE cis0
        pan1 == IF use_selected THEN selected[2] ELSE pan0
    IN IF Truthy(cis1) /\ Truthy(pan1)
       THEN [error |-> NoError, cis_key |-> cis1, pan_key |-> pan1]
       ELSE IF Len(keys) >= 2
       THEN [error |-> NoError, cis_key |-> keys[1], pan_key |-> keys[2]]
       ELSE [error |-> "ValueError", cis_key |-> cis1, pan_key |-> pan1]

\* the pair compare_policies settles on, or the error it raises: keys are the
\* keys of (snippets or summaries)
ResolvePair(keys, selected) ==
    LET cis0 == FirstCis(keys)
        pan0 == FirstPan(keys)
        use_selected == ~(Truthy(cis0) /\ Truthy(pan0)) /\ Len(selected) >= 2
        cis1 == IF use_selected THEN selected[1] ELSE cis0
        pan1 == IF use_selected THEN selected[2] ELSE pan0
    IN IF Truthy(cis1) /\ Truthy(pan1)
       THEN [error |-> NoError, cis_key |-> cis1, pan_key |-> pan1]
       ELSE IF Len(keys) >= 2
       THEN [error |-> NoError, cis_key |-> keys[1], pan_key |-> keys[2]]
       ELSE [error |-> "ValueError", cis_key |-> cis1, pan_key |-> pan1]

\* str(page): the text of a page value, whatever its type
PyStr(v) == [type |-> "str", text |-> v.text]

\* the pool snippets that match a claimed ref on source, page and range
MatchingSnippets(r, pool) ==
    SelectSeq(pool, LAMBDA sn :
        /\ sn.source = r.source
        /\ PyStr(sn.page) = PyStr(r.page)
        /\ sn.line_start = r.line_start
        /\ sn.line_end = r.line_end)

\* r["__verify_error"] = error
Tagged(r, error) ==
    [source |-> r.source, page |-> r.page, line_start |-> r.line_start,
     line_end |-> r.line_end, quote |-> r.quote, __verify_error |-> error]

\* VerifyRef with the quote test lost: a ref that names a snippet is never flagged
VerifyRef_QuoteUnchecked(r, pool) ==
    LET matches == MatchingSnippets(r, pool)
        quote == Strip(r.quote)
    IN IF matches = <<>>
       THEN [ok |-> FALSE, out |-> <<>>, ref |-> Tagged(r, "no_matching_snippet")]
       ELSE [ok |-> TRUE,
             out |-> << [line_hint |-> quote,
                         line_numbers |-> <<r.line_start, r.line_end>>] >>,
             ref |-> r]

\* VerifyRef with the continue lost: a ref that names no snippet is converted too
VerifyRef_KeepsUnmatched(r, pool) ==
    LET matches == MatchingSnippets(r, pool)
        quote == Strip(r.quote)
        bad == matches # <<>> /\ quote # <<>> /\ ~IsSubstring(quote, matches[1].text)
    IN [ok |-> matches # <<>> /\ ~bad,
        out |-> << [line_hint |-> quote,
                    line_numbers |-> <<r.line_start, r.line_end>>] >>,
        ref |-> IF matches = <<>> THEN Tagged(r, "no_matching_snippet")
                ELSE IF bad THEN Tagged(r, "quote_not_in_snippet") ELSE r]

\* VerifyRef with a ref that names no snippet skipped in silence
VerifyRef_UnmatchedNotFlagged(r, pool) ==
    LET matches == MatchingSnippets(r, pool)
        quote == Strip(r.quote)
    IN IF matches = <<>>
       THEN [ok |-> TRUE, out |-> <<>>, ref |-> r]
       ELSE LET bad == quote # <<>> /\ ~IsSubstring(quote, matches[1].text)
            IN [ok |-> ~bad,
                out |-> << [line_hint |-> quote,
                            line_numbers |-> <<r.line_start, r.line_end>>] >>,
                ref |-> IF bad THEN Tagged(r, "quote_not_in_snippet") ELSE r]

\* VerifyRef with a ref whose quote is missing skipped like one that names no snippet
VerifyRef_DropsBadQuote(r, pool) ==
    LET matches == MatchingSnippets(r, pool)
        quote == Strip(r.quote)
    IN IF matches = <<>>
       THEN [ok |-> FALSE, out |-> <<>>, ref |-> Tagged(r, "no_matching_snippet")]
       ELSE IF quote # <<>> /\ ~IsSubstring(quote, matches[1].text)
       THEN [ok |-> FALSE, out |-> <<>>, ref |-> Tagged(r, "quote_not_in_snippet")]
       ELSE [ok |-> TRUE,
             out |-> << [line_hint |-> quote,
                         line_numbers |-> <<r.line_start, r.line_end>>] >>,
             ref |-> r]

\* one pass of the loop of verify_and_convert over a claimed ref: whether the
\* ref is flagged, the entry it appends to out (none or one), the ref as left
VerifyRef(r, pool) ==
    LET matches == MatchingSnippets(r, pool)
        quote == Strip(r.quote)
    IN IF matches = <<>>
       THEN [ok |-> FALSE, out |-> <<>>, ref |-> Tagged(r, "no_matching_snippet")]
       ELSE LET bad == quote # <<>> /\ ~IsSubstring(quote, matches[1].text)
            IN [ok |-> ~bad,
                out |-> << [line_hint |-> quote,
                            line_numbers |-> <<r.line_start, r.line_end>>] >>,
                ref |-> IF bad THEN Tagged(r, "quote_not_in_snippet") ELSE r]

RECURSIVE verify_and_convert(_, _)
verify_and_convert(refs, pool) ==
    IF refs = <<>> THEN [ok |-> TRUE, out |-> <<>>, refs |-> <<>>]
    ELSE LET first == VerifyRef(Head(refs), pool)
             rest == verify_and_convert(Tail(refs), pool)
         IN [ok |-> first.ok /\ rest.ok,
             out |-> first.out \o rest.out,
             refs |-> <<first.ref>> \o rest.refs]

\* the entry of gaps_structured for one gap of the oracle's list (path A)
StructuredGap(g, baseline_snips, target_snips) ==
    LET cis == verify_and_convert(g.cis_refs, baseline_snips)
        pan == verify_and_convert(g.pan_refs, target_snips)
    IN [gap |-> g.gap, why |-> g.why, remediation |-> g.remediation,
        refs |-> [policy_a |-> cis.out, policy_b |-> pan.out],
        __verified |-> cis.ok /\ pan.ok]

\* the oracle's gap as the two verify_and_convert calls leave it
VerifiedGap(g, baseline_snips, target_snips) ==
    [g EXCEPT !.cis_refs = verify_and_convert(g.cis_refs, baseline_snips).refs,
              !.pan_refs = verify_and_convert(g.pan_refs, target_snips).refs]

\* one human-readable bullet of path A: the values its f-string renders
RangeBullet(g, cis_key, pan_key) ==
    LET pa_rng == [i \in 1..Len(g.refs.policy_a) |-> g.refs.policy_a[i].line_numbers]
        pb_rng == [i \in 1..Len(g.refs.policy_b) |-> g.refs.policy_b[i].line_numbers]
    IN [gap |-> g.gap, why |-> g.why, remediation |-> g.remediation,
        policy_a |-> cis_key, a_shown |-> IF pa_rng = <<>> THEN "n/a" ELSE "ranges",
        a_ranges |-> pa_rng,
        policy_b |-> pan_key, b_shown |-> IF pb_rng = <<>> THEN "missing" ELSE "ranges",
        b_ranges |-> pb_rng]

\* attach_lines trusting the line numbers a ref already carries
attach_lines_KeepsSupplied(numbered, policy_key, refs) ==
    LET policy_lines == DictGet(numbered, policy_key, <<>>)
    IN [i \in 1..Len(refs) |->
           [line_hint |-> refs[i].line_hint,
            line_numbers |-> IF refs[i].line_numbers # <<>> THEN refs[i].line_numbers
                             ELSE IF policy_lines # <<>>
                             THEN find_best_line_numbers(policy_lines, refs[i].line_hint)
                             ELSE <<>>]]

\* attach_lines(policy_key, refs), over the numbered cache
attach_lines(numbered, policy_key, refs) ==
    LET policy_lines == DictGet(numbered, policy_key, <<>>)
    IN [i \in 1..Len(refs) |->
           [line_hint |-> refs[i].line_hint,
            line_numbers |-> IF policy_lines # <<>>
                             THEN find_best_line_numbers(policy_lines, refs[i].line_hint)
                             ELSE <<>>]]

\* the oracle's gap with its refs re-resolved (path B)
AttachedGap(g, numbered, cis_key, pan_key) ==
    [g EXCEPT !.refs = [policy_a |-> attach_lines(numbered, cis_key, g.refs.policy_a),
                        policy_b |-> attach_lines(numbered, pan_key, g.refs.policy_b)]]

\* sorted({ln for ref in refs for ln in ref["line_numbers"]})
RECURSIVE SortedSet(_)
SortedSet(S) ==
    IF S = {} THEN <<>>
    ELSE LET m == CHOOSE x \in S : \A y \in S : x <= y
         IN <<m>> \o SortedSet(S \ {m})

LinesOf(refs) == SortedSet(UNION {Range(refs[i].line_numbers) : i \in 1..Len(refs)})

\* one human-readable bullet of path B
LineBullet(g, cis_key, pan_key) ==
    LET pa_lines == LinesOf(g.refs.policy_a)
        pb_lines == LinesOf(g.refs.policy_b)
    IN [gap |-> g.gap, why |-> g.why, remediation |-> g.remediation,
        policy_a |-> cis_key, a_shown |-> IF pa_lines = <<>> THEN "n/a" ELSE "lines",
        a_ranges |-> pa_lines,
        policy_b |-> pan_key, b_shown |-> IF pb_lines = <<>> THEN "missing" ELSE "lines",
        b_ranges |-> pb_lines]

\* no helper function is being called on its own
NoCall == [fn |-> "none"]

NoFrame == [path |-> "none", cis_key |-> NoKey, pan_key |-> NoKey, gaps |-> <<>>]

compare_policies ==
    /\ AtNode("compare_policies")
    /\ LET summaries == Get("policy_control_summaries", <<>>)
           snippets == Get("policy_snippets", <<>>)
           selected == Get("selected_policy_paths", <<>>)
           pair == ResolvePair(DictKeys(IF snippets # <<>> THEN snippets ELSE summaries),
                               selected)
           cis_key == pair.cis_key
           pan_key == pair.pan_key
           baseline_snips == DictGet(snippets, cis_key, <<>>)
           target_snips == DictGet(snippets, pan_key, <<>>)
           resp == Invoke("compare")
           cached == "_numbered_policies" \in has
           numbered == IF cached THEN state._numbered_policies
                       ELSE NumberedPolicies(Get("policy_texts", <<>>))
       IN IF pair.error # NoError
          THEN /\ Raise("compare_policies", pair.error, <<>>)
               /\ UNCHANGED <<state, llm_calls, frame>>
          ELSE IF baseline_snips # <<>> /\ target_snips # <<>>
          THEN \* path A: snippet-based verified comparison
               /\ llm_calls' = Append(llm_calls, "compare_policies")
               /\ IF resp.kind = "raise"
                  THEN /\ Raise("compare_policies", "OracleError", <<>>)
                       /\ UNCHANGED <<state, frame>>
                  ELSE IF resp.kind # "json_list"
                  THEN /\ Raise("compare_policies", "RuntimeError", <<>>)
                       /\ UNCHANGED <<state, frame>>
                  ELSE LET gaps == resp.value
                           gaps_structured ==
                               [i \in 1..Len(gaps) |->
                                   StructuredGap(gaps[i], baseline_snips, target_snips)]
                       IN /\ state' = [state EXCEPT
                                 !.policy_gaps_structured = gaps_structured,
                                 !.policy_gaps =
                                     [i \in 1..Len(gaps) |->
                                         RangeBullet(gaps_structured[i], cis_key, pan_key)],
                                 !.baseline_policy = cis_key,
                                 !.target_policy = pan_key]
                          /\ frame' = [path |-> "A", cis_key |-> cis_key, pan_key |-> pan_key,
                                       gaps |-> [i \in 1..Len(gaps) |->
                                                    VerifiedGap(gaps[i], baseline_snips,
                                                                target_snips)]]
                          /\ Return("compare_policies",
                                    <<"policy_gaps_structured", "policy_gaps",
                                      "baseline_policy", "target_policy">>)
          ELSE \* path B: summary-based comparison, line hints resolved by search
               /\ llm_calls' = Append(llm_calls, "compare_policies")
               /\ IF resp.kind \in {"raise", "prose", "json_other"}
                  THEN /\ Raise("compare_policies",
                                IF resp.kind = "raise" THEN "OracleError" ELSE "RuntimeError",
                                IF cached THEN <<>> ELSE <<"_numbered_policies">>)
                       /\ state' = [state EXCEPT !._numbered_policies = numbered]
                       /\ UNCHANGED frame
                  ELSE LET gaps_structured ==
                               [i \in 1..Len(resp.value) |->
                                   AttachedGap(resp.value[i], numbered, cis_key, pan_key)]
                       IN /\ state' = [state EXCEPT
                                 !._numbered_policies = numbered,
                                 !.policy_gaps_structured = gaps_structured,
                                 !.policy_gaps =
                                     [i \in 1..Len(gaps_structured) |->
                                         LineBullet(gaps_structured[i], cis_key, pan_key)],
                                 !.baseline_policy = cis_key,
                                 !.target_policy = pan_key]
                          /\ frame' = [path |-> "B", cis_key |-> cis_key, pan_key |-> pan_key,
                                       gaps |-> gaps_structured]
                          /\ Return("compare_policies",
                                    (IF cached THEN <<>> ELSE <<"_numbered_policies">>) \o
                                    <<"policy_gaps_structured", "policy_gaps",
                                      "baseline_policy", "target_policy">>)
    /\ UNCHANGED <<fs, llm, call>>

----------------------------------------------------------------------------
(* nodes/gap_analysis.py: validate_vs_evidence and finalize_report *)

\* one readable bullet of the gap-to-evidence mapping
LinkBullet(m) ==
    [gap |-> m.gap, evidence_linkage |-> m.evidence_linkage,
     likely_impact |-> m.likely_impact, confidence |-> m.confidence]

validate_vs_evidence ==
    /\ AtNode("validate_vs_evidence")
    /\ llm_calls' = Append(llm_calls, "validate_vs_evidence")
    /\ LET resp == Invoke("validate")
       IN IF resp.kind # "json_list"
          THEN /\ Raise("validate_vs_evidence",
                        IF resp.kind = "raise" THEN "OracleError" ELSE "RuntimeError", <<>>)
               /\ UNCHANGED state
          ELSE /\ state' = [state EXCEPT
                      !.gaps_evidence_link_structured = resp.value,
                      !.gaps_evidence_link =
                          [i \in 1..Len(resp.value) |-> LinkBullet(resp.value[i])]]
               /\ Return("validate_vs_evidence",
                         <<"gaps_evidence_link_structured", "gaps_evidence_link">>)
    /\ UNCHANGED <<fs, llm, frame, call>>

\* the hints merged under line number ln, without the empty ones
HintsAt(refs, ln) ==
    { refs[i].line_hint : i \in { j \in 1..Len(refs) : ln \in Range(refs[j].line_numbers) } }
        \ {<<>>}

\* render_citations(policy_key, refs): one entry per line number, in ascending
\* order, each with the set of hints that "; ".join(sorted(...)) writes out
render_citations(refs) ==
    LET lns == LinesOf(refs)
    IN IF lns = <<>> THEN <<"_none_">>
       ELSE [i \in 1..Len(lns) |->
               [line |-> lns[i],
                hints |-> IF HintsAt(refs, lns[i]) = {} THEN {"(no hint)"}
                          ELSE HintsAt(refs, lns[i])]]

\* indent_block(text, spaces), over the lines of the text
indent_block(text, spaces) ==
    IF text = <<>> THEN << [pad |-> spaces, line |-> "(none)"] >>
    ELSE [i \in 1..Len(text) |-> [pad |-> spaces, line |-> text[i]]]

\* one entry of per_gap_citations: the values its f-string renders
GapCitation(g, cis_key, pan_key) ==
    [gap |-> g.gap,
     policy_a |-> cis_key, a_refs |-> indent_block(render_citations(g.refs.policy_a), 4),
     policy_b |-> pan_key, b_refs |-> indent_block(render_citations(g.refs.policy_b), 4)]

\* citations_block, for the gaps and the two policy keys finalize_report reads
citations_block(gaps_struct, cis_key, pan_key) ==
    IF gaps_struct = <<>> THEN <<"_No line citations were generated._">>
    ELSE [i \in 1..Len(gaps_struct) |-> GapCitation(gaps_struct[i], cis_key, pan_key)]

\* finalize_report also replacing the evidence summary by the report
finalize_report_RewritesSummary ==
    /\ AtNode("finalize_report")
    /\ llm_calls' = Append(llm_calls, "finalize_report")
    /\ LET resp == Invoke("finalize")
       IN IF resp.kind = "raise"
          THEN /\ Raise("finalize_report", "OracleError", <<>>)
               /\ UNCHANGED state
          ELSE /\ state' = [state EXCEPT !.final_report = resp.content,
                                         !.evidence_summary = resp.content]
               /\ Return("finalize_report", <<"final_report", "evidence_summary">>)
    /\ UNCHANGED <<fs, llm, frame, call>>

finalize_report ==
    /\ AtNode("finalize_report")
    /\ llm_calls' = Append(llm_calls, "finalize_report")
    /\ LET resp == Invoke("finalize")
       IN IF resp.kind = "raise"
          THEN /\ Raise("finalize_report", "OracleError", <<>>)
               /\ UNCHANGED state
          ELSE /\ state' = [state EXCEPT !.final_report = resp.content]
               /\ Return("finalize_report", <<"final_report">>)
    /\ UNCHANGED <<fs, llm, frame, call>>

----------------------------------------------------------------------------
(* The runs of the model: the initial state dict, the files, the oracle *)

THREAT_WINDOWS == <<"W", "i", "n", "d", "o", "w", "s", " ", "4", "6", "2", "5">>
THREAT_OTHER == <<"s", "s", "h">>
Threats == {THREAT_WINDOWS, THREAT_OTHER}

LogDirs ==
    { <<>>,
      << [path |-> "logs/a.csv", readable |-> FALSE, rows |-> <<>>],
         [path |-> "logs/b.csv", readable |-> TRUE, rows |-> <<"EventID=4625">>] >> }

PolicyPathLists ==
    { <<CIS_PATH, PAN_PATH>>, <<OTHER_PATH, PAN_PATH>>, <<BOTH_PATH, OTHER_PATH>> }

FileKinds == {"missing", "ok", "broken"}

\* the files at the listed paths vary; no other path holds a file
FileSystems(paths) ==
    {f \in [PolicyKeys -> FileKinds] : \A p \in PolicyKeys \ Range(paths) : f[p] = "missing"}

\* run_graph.py prebuilds an index and a text for each listed path that exists
Found(paths, files) == SelectSeq(paths, LAMBDA p : files[p] = "ok")

PrebuiltIndexes(paths, files) ==
    LET found == Found(paths, files)
    IN [i \in 1..Len(found) |-> [k |-> found[i], v |-> PrebuiltIndex(found[i])]]

PrebuiltTexts(paths, files) ==
    LET found == Found(paths, files)
    IN [i \in 1..Len(found) |-> [k |-> found[i], v |-> PolicyText(found[i])]]

SeedModes == {"none", "both", "indexes", "texts"}
MaxPolicyChoices == {1, 2}

\* a claimed ref of the oracle
Ref(src, page, ls, le, quote) ==
    [source |-> src, page |-> page, line_start |-> ls, line_end |-> le, quote |-> quote]

\* the refs the oracle may claim
ClaimedRefs ==
    { Ref(CIS_PATH, PageInt, 1, 2, <<" ", "a", "b">>),
      Ref(CIS_PATH, PageStr, 1, 2, <<"z">>),
      Ref(PAN_PATH, PageStr, 1, 3, <<" ">>),
      Ref(PAN_PATH, PageStr, 2, 3, <<"e">>),
      Ref(PAN_PATH, PageInt, 1, 3, <<"C", "D">>) }

Hint(h, lns) == [line_hint |-> h, line_numbers |-> lns]

Gap(cis_refs, pan_refs, refs_a, refs_b) ==
    [gap |-> "No password lockout policy", why |-> "why", remediation |-> "fix",
     cis_refs |-> cis_refs, pan_refs |-> pan_refs,
     refs |-> [policy_a |-> refs_a, policy_b |-> refs_b]]

ClaimedCount(g) == Len(g.cis_refs) + Len(g.pan_refs)

RECURSIVE TotalClaimed(_)
TotalClaimed(gaps) ==
    IF gaps = <<>> THEN 0 ELSE ClaimedCount(Head(gaps)) + TotalClaimed(Tail(gaps))

\* the gap lists the oracle may answer the snippet comparison with
GapLists ==
    LET RefLists == SeqsUpTo(ClaimedRefs, MaxRefs)
        Gaps == {Gap(c, p, <<>>, <<>>) :
                    <<c, p>> \in {cp \in RefLists \X RefLists :
                                      Len(cp[1]) + Len(cp[2]) <= MaxRefs}}
    IN {gs \in SeqsUpTo(Gaps, MaxGaps) : TotalClaimed(gs) <= MaxRefs}

Text(content) == [kind |-> "prose", content |-> content]
Failure == [kind |-> "raise", content |-> ""]
Json(kind, value) == [kind |-> kind, value |-> value]

\* an oracle that answers every call as asked
OkLLM ==
    [analyze |-> Text("4625 brute force from 10.0.0.5"),
     select |-> Json("json_list", <<PAN_PATH, CIS_PATH>>),
     compare |-> Json("json_list",
                      << Gap(<< Ref(CIS_PATH, PageInt, 1, 2, <<" ", "a", "b">>) >>,
                             << Ref(PAN_PATH, PageStr, 2, 3, <<"e">>) >>,
                             << Hint(<<"c", "  ", "d">>, <<>>) >>,
                             << Hint(<<"m", "i", "s", "s", "i", "n", "g">>, <<7>>) >>) >>),
     validate |-> Json("json_list",
                       << [gap |-> "No password lockout policy",
                           evidence_linkage |-> "4625 bursts", likely_impact |-> "takeover",
                           confidence |-> "high"] >>),
     finalize |-> Text("# Report")]

\* the oracles that fail or answer off-format at one call site
ScriptedLLMs ==
    {OkLLM}
    \cup {[OkLLM EXCEPT !.analyze = Failure], [OkLLM EXCEPT !.finalize = Failure]}
    \cup {[OkLLM EXCEPT ![site] = Json(kind, <<>>)] :
             site \in {"select", "compare", "validate"},
             kind \in {"raise", "prose", "json_other"}}

\* the oracles that answer the snippet comparison with any gap list
VerifierLLMs == {[OkLLM EXCEPT !.compare = Json("json_list", gs)] : gs \in GapLists}

EmptyState ==
    [threat |-> <<>>, log_csv_glob |-> DEFAULT_GLOB, policy_paths |-> <<>>,
     max_policy_choices |-> DefaultMaxPolicyChoices,
     policy_indexes |-> <<>>, policy_texts |-> <<>>, selected_policy_paths |-> <<>>,
     evidence_plan |-> [need_windows_logs |-> FALSE, log_csv_glob |-> DEFAULT_GLOB],
     logs_df |-> <<>>, logs_text |-> <<>>, evidence_summary |-> "",
     policy_control_summaries |-> <<>>, policy_snippets |-> <<>>,
     _numbered_policies |-> <<>>,
     policy_gaps_structured |-> <<>>, policy_gaps |-> <<>>,
     baseline_policy |-> NoKey, target_policy |-> NoKey,
     gaps_evidence_link_structured |-> <<>>, gaps_evidence_link |-> <<>>,
     final_report |-> ""]

\* the initial_state dict of run_graph.py, for one choice of its arguments
initial_state(threat, paths, files, seed, selected, max_k) ==
    [EmptyState EXCEPT
        !.threat = threat,
        !.policy_paths = paths,
        !.max_policy_choices = max_k,
        !.policy_indexes = IF seed \in {"both", "indexes"}
                           THEN PrebuiltIndexes(paths, files) ELSE <<>>,
        !.policy_texts = IF seed \in {"both", "texts"}
                         THEN PrebuiltTexts(paths, files) ELSE <<>>,
        !.selected_policy_paths = selected]

InitialKeys(seed, selected) ==
    {"threat", "log_csv_glob", "policy_paths", "max_policy_choices"}
    \cup (IF seed \in {"both", "indexes"} THEN {"policy_indexes"} ELSE {})
    \cup (IF seed \in {"both", "texts"} THEN {"policy_texts"} ELSE {})
    \cup (IF selected # <<>> THEN {"selected_policy_paths"} ELSE {})

Start(threat, paths, files, logs, seed, selected, max_k, oracle) ==
    /\ state = initial_state(threat, paths, files, seed, selected, max_k)
    /\ has = InitialKeys(seed, selected)
    /\ fs = [files |-> files, logs |-> logs, log_glob |-> DEFAULT_GLOB]
    /\ llm = oracle
    /\ pc = EntryPoint
    /\ raised = NoError
    /\ executed = <<>>
    /\ writes = <<>>
    /\ llm_calls = <<>>
    /\ frame = NoFrame
    /\ call = NoCall

\* any run configuration, with the oracle that answers as asked
InitConfigs ==
    \E paths \in PolicyPathLists, seed \in SeedModes,
       selected \in SeqsUpTo(PolicyKeys, MaxSel), max_k \in MaxPolicyChoices :
        \E files \in FileSystems(paths) :
            Start(THREAT_WINDOWS, paths, files, <<>>, seed, selected, max_k, OkLLM)

\* the run of run_graph.py over two prebuilt policies, with any evidence and any oracle
ReferencePaths == { <<CIS_PATH, PAN_PATH>>, <<OTHER_PATH, PAN_PATH>> }

InitOracle ==
    \E paths \in ReferencePaths, threat \in Threats, logs \in LogDirs,
       oracle \in ScriptedLLMs \cup VerifierLLMs :
        Start(threat, paths,
              [p \in PolicyKeys |-> IF p \in Range(paths) THEN "ok" ELSE "missing"],
              logs, "both", paths, DefaultMaxPolicyChoices, oracle)

Init == InitConfigs \/ InitOracle

Next ==
    \/ plan_evidence
    \/ load_logs
    \/ analyze_evidence
    \/ build_policy_indexes
    \/ select_policies
    \/ read_policies
    \/ compare_policies
    \/ validate_vs_evidence
    \/ finalize_report

Spec == Init /\ [][Next]_vars

----------------------------------------------------------------------------
(* Helper functions called on their own: the graph stands by *)

Standalone ==
    /\ state = EmptyState
    /\ has = {}
    /\ fs = [files |-> [p \in PolicyKeys |-> "missing"], logs |-> <<>>,
             log_glob |-> DEFAULT_GLOB]
    /\ llm = OkLLM
    /\ pc = "__call__"
    /\ raised = NoError
    /\ executed = <<>>
    /\ writes = <<>>
    /\ llm_calls = <<>>
    /\ frame = NoFrame

graph_vars == <<state, has, pc, raised, executed, writes, llm_calls, fs, llm, frame>>

\* every str over an alphabet, up to a length
StrsUpTo(alphabet, n) == UNION {[1..m -> alphabet] : m \in 0..n}

----------------------------------------------------------------------------
(* run_graph.py: make_line_window_nodes *)

\* "".join(buf)
RECURSIVE Join(_)
Join(buf) == IF buf = <<>> THEN <<>> ELSE Head(buf) \o Join(Tail(buf))

\* sum(len(x) for x in buf)
RECURSIVE SumLen(_)
SumLen(buf) == IF buf = <<>> THEN 0 ELSE Len(Head(buf)) + SumLen(Tail(buf))

\* buf[-overlap:] if overlap < len(buf) else buf, for overlap >= 0; buf[-0:] is buf
KeepOverlap(buf, overlap) ==
    IF overlap < Len(buf) /\ overlap > 0
    THEN SubSeq(buf, Len(buf) - overlap + 1, Len(buf))
    ELSE buf

\* OverlapStart with the kept lines forgotten: the window starts after line i
OverlapStart_PastLine(i, overlap_lines) == i + 1

\* max(1, i - len(overlap_lines) + 1)
OverlapStart(i, overlap_lines) ==
    IF i - Len(overlap_lines) + 1 > 1 THEN i - Len(overlap_lines) + 1 ELSE 1

\* the node a flush appends, if the stripped text is not empty
FlushNode(d, buf, start_ln, line_end) ==
    LET txt == Strip(Join(buf))
    IN IF txt # <<>>
       THEN << Snippet(d.source, d.page, start_ln, line_end, txt) >>
       ELSE <<>>

\* the loop over the lines of one page, from line i on, and the final flush
RECURSIVE WindowLines(_, _, _, _, _, _, _, _)
WindowLines(d, lines, i, buf, start_ln, cur_len, window_chars, overlap) ==
    IF i > Len(lines)
    THEN IF buf # <<>> THEN FlushNode(d, buf, start_ln, Len(lines)) ELSE <<>>
    ELSE LET seg == Append(lines[i], "\n")
         IN IF cur_len + Len(seg) > window_chars /\ buf # <<>>
            THEN LET overlap_lines == KeepOverlap(buf, overlap)
                 IN FlushNode(d, buf, start_ln, i - 1) \o
                    WindowLines(d, lines, i + 1, Append(overlap_lines, seg),
                                OverlapStart(i, overlap_lines),
                                SumLen(overlap_lines) + Len(seg), window_chars, overlap)
            ELSE WindowLines(d, lines, i + 1, Append(buf, seg), start_ln,
                             cur_len + Len(seg), window_chars, overlap)

\* the buffer at each flush of the loop (lines 96-109): the lines flushed and the
\* lines buf holds after line 107, before the current line is appended
RECURSIVE WindowSeeds(_, _, _, _, _, _)
WindowSeeds(lines, i, buf, cur_len, window_chars, overlap) ==
    IF i > Len(lines) THEN <<>>
    ELSE LET seg == Append(lines[i], "\n")
         IN IF cur_len + Len(seg) > window_chars /\ buf # <<>>
            THEN LET overlap_lines == KeepOverlap(buf, overlap)
                 IN << [flushed |-> buf, seeded |-> overlap_lines] >> \o
                    WindowSeeds(lines, i + 1, Append(overlap_lines, seg),
                                SumLen(overlap_lines) + Len(seg), window_chars, overlap)
            ELSE WindowSeeds(lines, i + 1, Append(buf, seg), cur_len + Len(seg),
                             window_chars, overlap)

\* the flushes of every page, in order
RECURSIVE AllSeeds(_, _, _)
AllSeeds(docs, window_chars, overlap) ==
    IF docs = <<>> THEN <<>>
    ELSE WindowSeeds(SplitLines(Head(docs).text), 1, <<>>, 0, window_chars, overlap)
         \o AllSeeds(Tail(docs), window_chars, overlap)

\* the definition in force (the second of the two in run_graph.py; the first
\* runs the same loop with other defaults)
RECURSIVE make_line_window_nodes(_, _, _)
make_line_window_nodes(docs, window_chars, overlap) ==
    IF docs = <<>> THEN <<>>
    ELSE WindowLines(Head(docs), SplitLines(Head(docs).text), 1, <<>>, 1, 0,
                     window_chars, overlap)
         \o make_line_window_nodes(Tail(docs), window_chars, overlap)

\* longest page text, widest window and largest overlap tried
MaxPageLen == 5
MaxWindowChars == 3
MaxOverlap == 2

\* the documents passed in are page Documents of the reader (text, source, page
\* label): one page of any text, or two short pages
InitWindows ==
    /\ Standalone
    /\ LET PageAlphabet == {"a", " ", "\n"}
           PageDoc(text, label) ==
               [text |-> text, source |-> PAN_PATH,
                page |-> [type |-> "str", text |-> label]]
           PageDocs ==
               { << PageDoc(t, "1") >> : t \in StrsUpTo(PageAlphabet, MaxPageLen) }
               \cup { << PageDoc(t, "1"), PageDoc(u, "2") >> :
                         t, u \in StrsUpTo(PageAlphabet, 2) }
       IN \E docs \in PageDocs, window_chars \in 1..MaxWindowChars,
             overlap \in 0..MaxOverlap :
             call = [fn |-> "make_line_window_nodes", docs |-> docs,
                     window_chars |-> window_chars, overlap |-> overlap,
                     returned |-> FALSE, nodes |-> <<>>, seeds |-> <<>>]

CallWindows ==
    /\ call.fn = "make_line_window_nodes"
    /\ ~call.returned
    /\ call' = [call EXCEPT !.returned = TRUE,
                            !.nodes = make_line_window_nodes(call.docs, call.window_chars,
                                                             call.overlap),
                            !.seeds = AllSeeds(call.docs, call.window_chars,
                                               call.overlap)]
    /\ UNCHANGED graph_vars

SpecWindows == InitWindows /\ [][CallWindows]_vars

----------------------------------------------------------------------------
(* nodes/gap_analysis.py: find_best_line_numbers over a numbered document *)

\* longest document text and longest quote tried
MaxDocLen == 4
MaxQuoteLen == 3

\* every short document with every short quote, and documents and quotes long
\* enough for the fuzzy fallback to find a line
InitResolve ==
    /\ Standalone
    /\ LET DocAlphabet == {"a", "b", " ", "\n"}
           QuoteAlphabet == {"a", "b", " "}
           CloseCalls ==
               { [text |-> <<"a", "a", "a", "a", "\n", "b", "\n", "a", "a", "a", "a">>,
                  quote |-> <<"a", "a", "a", "a", "b">>],
                 [text |-> <<"a", "b", "a", "b", "\n", "a", "a", " ", "b", "b">>,
                  quote |-> <<"a", "b", "b", "a", "b">>],
                 [text |-> <<"a", "a", "a", "a", "\n", "a", "a", "a", "b">>,
                  quote |-> <<"a", "a", "a", " ", "b">>] }
           ResolveCalls ==
               [text : StrsUpTo(DocAlphabet, MaxDocLen),
                quote : StrsUpTo(QuoteAlphabet, MaxQuoteLen)]
               \cup CloseCalls
       IN \E c \in ResolveCalls :
             call = [fn |-> "find_best_line_numbers", text |-> c.text, quote |-> c.quote,
                     returned |-> FALSE, lines |-> <<>>]

CallResolve ==
    /\ call.fn = "find_best_line_numbers"
    /\ ~call.returned
    /\ call' = [call EXCEPT !.returned = TRUE,
                            !.lines = find_best_line_numbers(number_lines(call.text),
                                                             call.quote)]
    /\ UNCHANGED graph_vars

SpecResolve == InitResolve /\ [][CallResolve]_vars

----------------------------------------------------------------------------
(* nodes/gap_analysis.py: normalize_llm_json, with json.loads computed *)

\* s[i], or the empty str past the end
CharAt(s, i) == IF i >= 1 /\ i <= Len(s) THEN s[i] ELSE ""

JsonWhitespace == {" ", "\n", "\t", "\r"}
Digits == {"0", "1", "2", "3", "4", "5", "6", "7", "8", "9"}

\* the first position from i on that holds no JSON whitespace
RECURSIVE SkipWs(_, _)
SkipWs(s, i) == IF CharAt(s, i) \in JsonWhitespace THEN SkipWs(s, i + 1) ELSE i

\* the first position from i on that holds c, or 0
RECURSIVE IndexFrom(_, _, _)
IndexFrom(s, c, i) ==
    IF i > Len(s) THEN 0 ELSE IF s[i] = c THEN i ELSE IndexFrom(s, c, i + 1)

\* the first position from i on that holds no digit
RECURSIVE SkipDigits(_, _)
SkipDigits(s, i) == IF CharAt(s, i) \in Digits THEN SkipDigits(s, i + 1) ELSE i

NoParse == [ok |-> FALSE, value |-> None, next |-> 0]
Parsed(value, next) == [ok |-> TRUE, value |-> value, next |-> next]

\* a str literal from the quote at i: up to the next quote (the characters of
\* the model hold no backslash and no control character)
ScanString(s, i) ==
    LET j == IndexFrom(s, "\"", i + 1)
    IN IF j = 0 THEN NoParse
       ELSE Parsed([t |-> "str", v |-> SubSeq(s, i + 1, j - 1)], j + 1)

\* an int literal at i: 0, or a digit other than 0 and the digits after it
ScanNumber(s, i) ==
    LET j == IF s[i] = "0" THEN i + 1 ELSE SkipDigits(s, i)
    IN Parsed([t |-> "num", v |-> SubSeq(s, i, j - 1)], j)

RECURSIVE ScanOnce(_, _)
RECURSIVE ScanItems(_, _, _)
RECURSIVE ScanMembers(_, _, _)

\* json.scanner scan_once at position i
ScanOnce(s, i) ==
    LET c == CharAt(s, i)
    IN IF c = "\"" THEN ScanString(s, i)
       ELSE IF c = "{"
       THEN LET j == SkipWs(s, i + 1)
            IN IF CharAt(s, j) = "}" THEN Parsed([t |-> "obj", v |-> <<>>], j + 1)
               ELSE IF CharAt(s, j) # "\"" THEN NoParse
               ELSE ScanMembers(s, j, <<>>)
       ELSE IF c = "["
       THEN LET j == SkipWs(s, i + 1)
            IN IF CharAt(s, j) = "]" THEN Parsed([t |-> "arr", v |-> <<>>], j + 1)
               ELSE ScanItems(s, j, <<>>)
       ELSE IF c \in Digits THEN ScanNumber(s, i)
       ELSE NoParse

\* JSONArray: the items from position i on, after those already read
ScanItems(s, i, items) ==
    LET item == ScanOnce(s, i)
        j == SkipWs(s, item.next)
    IN IF ~item.ok THEN NoParse
       ELSE IF CharAt(s, j) = "]"
       THEN Parsed([t |-> "arr", v |-> Append(items, item.value)], j + 1)
       ELSE IF CharAt(s, j) # "," THEN NoParse
       ELSE ScanItems(s, SkipWs(s, j + 1), Append(items, item.value))

\* JSONObject: the members from the key quote at i on, after those already read
ScanMembers(s, i, members) ==
    LET key == ScanString(s, i)
        colon == SkipWs(s, key.next)
        item == ScanOnce(s, SkipWs(s, colon + 1))
        j == SkipWs(s, item.next)
        k == SkipWs(s, j + 1)
    IN IF ~key.ok \/ CharAt(s, colon) # ":" THEN NoParse
       ELSE IF ~item.ok THEN NoParse
       ELSE IF CharAt(s, j) = "}"
       THEN Parsed([t |-> "obj", v |-> DictSet(members, key.value.v, item.value)], j + 1)
       ELSE IF CharAt(s, j) # "," \/ CharAt(s, k) # "\"" THEN NoParse
       ELSE ScanMembers(s, k, DictSet(members, key.value.v, item.value))

\* json.loads: one value between whitespace, and nothing after it
json_loads(s) ==
    LET r == ScanOnce(s, SkipWs(s, 1))
    IN IF r.ok /\ SkipWs(s, r.next) = Len(s) + 1 THEN r ELSE NoParse

\* text.find(c), 0-based, -1 if absent
Find(text, c) == IndexFrom(text, c, 1) - 1

\* FirstOpen with the brace preferred to the bracket
FirstOpen_BraceFirst(text) ==
    LET start_brace == Find(text, "{")
        start_brack == Find(text, "[")
    IN IF start_brace # -1 THEN start_brace ELSE start_brack

\* min(x for x in [start_brace, start_brack] if x != -1), or -1
FirstOpen(text) ==
    LET start_brace == Find(text, "{")
        start_brack == Find(text, "[")
    IN IF start_brace = -1 THEN start_brack
       ELSE IF start_brack = -1 THEN start_brace
       ELSE IF start_brace < start_brack THEN start_brace ELSE start_brack

\* for end in range(len(text), start, -1): the first text[start:end] that parses
RECURSIVE ShrinkFrom(_, _, _, _)
ShrinkFrom(text, start, end, tried) ==
    IF end <= start
    THEN [error |-> "ValueError", value |-> None, tried |-> tried]
    ELSE LET r == json_loads(SubSeq(text, start + 1, end))
         IN IF r.ok THEN [error |-> NoError, value |-> r.value, tried |-> tried + 1]
            ELSE ShrinkFrom(text, start, end - 1, tried + 1)

\* normalize_llm_json answering the empty list where it finds nothing to parse
normalize_llm_json_EmptyOnFailure(raw) ==
    LET text == Strip(raw)
        fast == json_loads(text)
        start == FirstOpen(text)
        found == ShrinkFrom(text, start, Len(text), 0)
    IN IF fast.ok THEN [error |-> NoError, value |-> fast.value, tried |-> 0]
       ELSE IF start = -1 \/ found.error # NoError
       THEN [error |-> NoError, value |-> [t |-> "arr", v |-> <<>>], tried |-> found.tried]
       ELSE found

\* the value returned or the error raised, and the candidate ends tried
normalize_llm_json(raw) ==
    LET text == Strip(raw)
        fast == json_loads(text)
        start == FirstOpen(text)
    IN IF fast.ok THEN [error |-> NoError, value |-> fast.value, tried |-> 0]
       ELSE IF start = -1 THEN [error |-> "ValueError", value |-> None, tried |-> 0]
       ELSE ShrinkFrom(text, start, Len(text), 0)

\* longest raw text tried in full
MaxRawLen == 4

\* every short text, and answers of the shapes an oracle gives: noise, a block,
\* trailing text
InitJson ==
    /\ Standalone
    /\ LET RawAlphabet == {"[", "]", "{", "}", "\"", ":", ",", "1", "x", " "}
           Noise == { <<>>, <<"x", " ">>, <<"1", " ">>, <<"\"">>, <<"x", ":", " ">> }
           Blocks ==
               { <<"{", "\"", "x", "\"", ":", "1", "}">>,
                 <<"{", "\"", "x", "\"", ":", "[", "1", ",", "1", "]", "}">>,
                 <<"[", "{", "}", ",", " ", "1", "]">>,
                 <<"[", "1", ",", "1">>,
                 <<"{", "\"", "x", "\"", ":", "[", "1", "]">>,
                 <<"{", "\"", "x", "\"", ":", "1", ",", "\"", "x", "\"", ":", "[", "]", "}">> }
           Trailing ==
               { <<>>, <<" ", "x">>, <<"}">>, <<"\"">>, <<" ", "[", "1", "]">>, <<",", "{">> }
           RawTexts ==
               StrsUpTo(RawAlphabet, MaxRawLen)
               \cup { n \o b \o t : n \in Noise, b \in Blocks, t \in Trailing }
       IN \E raw \in RawTexts :
             call = [fn |-> "normalize_llm_json", raw |-> raw, returned |-> FALSE,
                     error |-> NoError, value |-> None, tried |-> 0]

CallJson ==
    /\ call.fn = "normalize_llm_json"
    /\ ~call.returned
    /\ LET r == normalize_llm_json(call.raw)
       IN call' = [call EXCEPT !.returned = TRUE, !.error = r.error,
                               !.value = r.value, !.tried = r.tried]
    /\ UNCHANGED graph_vars

SpecJson == InitJson /\ [][CallJson]_vars

----------------------------------------------------------------------------
(* derive_required_controls, called on its own *)

\* the phrases of evidence.py line 78
TriggerPhrases ==
    { <<"4", "6", "2", "5">>,
      <<"f", "a", "i", "l", "e", "d", " ", "l", "o", "g", "o", "n">>,
      <<"b", "r", "u", "t", "e", " ", "f", "o", "r", "c", "e">>,
      <<"t", "1", "1", "1", "0">> }

Triggered_OnlyEventId(evidence) == IsSubstring(<<"4", "6", "2", "5">>, evidence)

\* the condition of evidence.py line 78
Triggered(evidence) == \E t \in TriggerPhrases : IsSubstring(t, evidence)

\* the list of evidence.py lines 80-83
BruteForceControls ==
    << [control |-> "Account lockout policy",
        rationale |-> "Mitigate repeated invalid logons"],
       [control |-> "SSH rate limiting / fail2ban",
        rationale |-> "Throttle repeated auth attempts on OpenSSH"],
       [control |-> "Alerting on repeated failures",
        rationale |-> "SOC visibility of brute-force attempts"],
       [control |-> "MFA for privileged accounts",
        rationale |-> "Reduce impact of guessed credentials"] >>

\* {r["control"]: r for r in required}
RECURSIVE DedupByControl(_, _)
DedupByControl(required, dedup) ==
    IF required = <<>> THEN dedup
    ELSE DedupByControl(Tail(required),
                        DictSet(dedup, Head(required).control, Head(required)))

\* list(dedup.values())
DictValues(d) == [i \in 1..Len(d) |-> d[i].v]

\* given: the state holds a str under evidence_summary; the value written to
\* required_controls_from_evidence
derive_required_controls(given, evidence_summary) ==
    LET evidence == Lower(IF given THEN evidence_summary ELSE <<>>)
        required == IF Triggered(evidence) THEN BruteForceControls ELSE <<>>
    IN DictValues(DedupByControl(required, <<>>))

MaxFragments == 3

\* summaries put together from pieces: the trigger phrases in several spellings,
\* and parts of them that are no trigger on their own
InitControls ==
    /\ Standalone
    /\ LET Fragments ==
               { <<"4", "6", "2", "5">>,
                 <<"4", "6", "2">>,
                 <<"5">>,
                 <<"F", "a", "i", "l", "e", "d">>,
                 <<"f", "a", "i", "l", "e", "d">>,
                 <<" ">>,
                 <<"l", "o", "g", "o", "n">>,
                 <<"L", "O", "G", "O", "N">>,
                 <<"B", "R", "U", "T", "E">>,
                 <<"b", "r", "u", "t", "e">>,
                 <<"f", "o", "r", "c", "e">>,
                 <<"F", "o", "r", "c", "e">>,
                 <<"T", "1", "1", "1", "0">>,
                 <<"t", "1", "1", "1">>,
                 <<"0">>,
                 <<"x">> }
           Summaries == { Join(parts) : parts \in SeqsUpTo(Fragments, MaxFragments) }
       IN \E given \in BOOLEAN :
          \E summary \in (IF given THEN Summaries ELSE {<<>>}) :
             call = [fn |-> "derive_required_controls", given |-> given,
                     evidence_summary |-> summary, returned |-> FALSE,
                     required |-> <<>>]

CallControls ==
    /\ call.fn = "derive_required_controls"
    /\ ~call.returned
    /\ call' = [call EXCEPT !.returned = TRUE,
                            !.required = derive_required_controls(call.given,
                                                                  call.evidence_summary)]
    /\ UNCHANGED graph_vars

SpecControls == InitControls /\ [][CallControls]_vars

----------------------------------------------------------------------------
(* Claims about the citation verifier (path A of compare_policies) *)

\* compare_policies returned along the snippet-based path
ComparedBySnippets == frame.path = "A"

\* the gaps the oracle claimed, before verification touched them
Claimed == llm.compare.value

BaselinePool == DictGet(state.policy_snippets, state.baseline_policy, <<>>)
TargetPool == DictGet(state.policy_snippets, state.target_policy, <<>>)

\* the positions of the pool snippets a claimed ref names
NamedBy(r, pool) ==
    {j \in 1..Len(pool) :
        /\ pool[j].source = r.source
        /\ pool[j].page.text = r.page.text
        /\ pool[j].line_start = r.line_start
        /\ pool[j].line_end = r.line_end}

FirstNamed(r, pool) == pool[CHOOSE j \in NamedBy(r, pool) : \A k \in NamedBy(r, pool) : j <= k]

Unmatched(r, pool) == NamedBy(r, pool) = {}

QuoteMissing(r, pool) ==
    /\ NamedBy(r, pool) # {}
    /\ Strip(r.quote) # <<>>
    /\ ~IsSubstring(Strip(r.quote), FirstNamed(r, pool).text)

Flagged(r, pool) == Unmatched(r, pool) \/ QuoteMissing(r, pool)

TagOf(r) == IF "__verify_error" \in DOMAIN r THEN r.__verify_error ELSE ""

\* C1: a gap of the snippet-based path is marked __verified only if none of its
\* claimed refs is flagged: each cis_ref names a snippet of the baseline pool, each
\* pan_ref one of the target pool, and each non-empty stripped quote is a
\* case-sensitive substring of that snippet's text.
C1_VerifiedOnlyIfNoRefFlagged ==
    ComparedBySnippets =>
        \A i \in 1..Len(Claimed) :
            state.policy_gaps_structured[i].__verified =>
                /\ \A k \in 1..Len(Claimed[i].cis_refs) :
                       ~Flagged(Claimed[i].cis_refs[k], BaselinePool)
                /\ \A k \in 1..Len(Claimed[i].pan_refs) :
                       ~Flagged(Claimed[i].pan_refs[k], TargetPool)

\* a verified gap that claimed a ref with a quote on each side
C1_Witness ==
    /\ ComparedBySnippets
    /\ \E i \in 1..Len(Claimed) :
           /\ state.policy_gaps_structured[i].__verified
           /\ \E k \in 1..Len(Claimed[i].cis_refs) : Strip(Claimed[i].cis_refs[k].quote) # <<>>
           /\ Len(Claimed[i].pan_refs) > 0

RangesOf(pool) == {<<pool[j].line_start, pool[j].line_end>> : j \in 1..Len(pool)}

\* C2: no invented citations. After the snippet-based path every line_numbers pair
\* stored in policy_gaps_structured is the (line_start, line_end) of a snippet of
\* the corresponding pool, whatever the oracle claimed.
C2_NoInventedCitations ==
    ComparedBySnippets =>
        \A i \in 1..Len(state.policy_gaps_structured) :
            LET refs == state.policy_gaps_structured[i].refs
            IN /\ \A k \in 1..Len(refs.policy_a) :
                      refs.policy_a[k].line_numbers \in RangesOf(BaselinePool)
               /\ \A k \in 1..Len(refs.policy_b) :
                      refs.policy_b[k].line_numbers \in RangesOf(TargetPool)

\* the oracle claimed a range no pool snippet has, beside one that was stored
C2_Witness ==
    /\ ComparedBySnippets
    /\ \E i \in 1..Len(Claimed) :
           /\ \E k \in 1..Len(Claimed[i].pan_refs) :
                  <<Claimed[i].pan_refs[k].line_start, Claimed[i].pan_refs[k].line_end>>
                      \notin RangesOf(TargetPool)
           /\ Len(state.policy_gaps_structured[i].refs.policy_a) > 0

\* the claimed refs of a list that name a pool snippet, in order
RECURSIVE MatchedOnly(_, _)
MatchedOnly(refs, pool) ==
    IF refs = <<>> THEN <<>>
    ELSE (IF Unmatched(Head(refs), pool) THEN <<>> ELSE <<Head(refs)>>)
         \o MatchedOnly(Tail(refs), pool)

C4_QuoteMissingStillRecorded ==
    ComparedBySnippets =>
        \A i \in 1..Len(Claimed) :
            LET gap == state.policy_gaps_structured[i]
                CheckSide(refs, left, out, pool) ==
                    \A k \in 1..Len(refs) :
                        QuoteMissing(refs[k], pool) =>
                            /\ TagOf(left[k]) = "quote_not_in_snippet"
                            /\ ~gap.__verified
                            /\ \E m \in 1..Len(out) :
                                   /\ out[m].line_numbers =
                                          << FirstNamed(refs[k], pool).line_start,
                                             FirstNamed(refs[k], pool).line_end >>
                                   /\ out[m].line_hint = Strip(refs[k].quote)
            IN /\ CheckSide(Claimed[i].cis_refs, frame.gaps[i].cis_refs,
                            gap.refs.policy_a, BaselinePool)
               /\ CheckSide(Claimed[i].pan_refs, frame.gaps[i].pan_refs,
                            gap.refs.policy_b, TargetPool)

\* a ref whose quote differs from the snippet's text in case only
C4_Witness ==
    /\ ComparedBySnippets
    /\ \E i \in 1..Len(Claimed) :
           \E k \in 1..Len(Claimed[i].pan_refs) :
               QuoteMissing(Claimed[i].pan_refs[k], TargetPool)

----------------------------------------------------------------------------
(* Claims about the choice of the pair to compare *)

\* compare_policies returned, along either path
Compared == frame # NoFrame

\* the documents available for comparison: the keys of (snippets or summaries)
Available ==
    DictKeys(IF state.policy_snippets # <<>> THEN state.policy_snippets
             ELSE state.policy_control_summaries)

Selection == state.selected_policy_paths
ComparedPair == <<state.baseline_policy, state.target_policy>>

\* both names are recognised among the available documents
NamesFound == \E i, j \in 1..Len(Available) : IsCisName(Available[i]) /\ IsPanName(Available[j])
NamedPair == <<FirstCis(Available), FirstPan(Available)>>

\* C5 as stated: a selection of at least two paths is used first, in the caller's
\* order; only without it the CIS / Pan name match; only without either the first
\* two available keys.
C5_SelectionBeforeNames ==
    Compared =>
        IF Len(Selection) >= 2 THEN ComparedPair = <<Selection[1], Selection[2]>>
        ELSE IF NamesFound THEN ComparedPair = NamedPair
        ELSE ComparedPair = <<Available[1], Available[2]>>

\* C5: compare_policies chooses the pair by the order: the CIS / Pan name match
\* among the available documents first; only when a name is not found the first
\* two selected paths, in the caller's order; only without either the first two
\* available keys.
C5_NamesBeforeSelection ==
    Compared =>
        IF NamesFound THEN ComparedPair = NamedPair
        ELSE IF Len(Selection) >= 2 THEN ComparedPair = <<Selection[1], Selection[2]>>
        ELSE ComparedPair = <<Available[1], Available[2]>>

C5_Witness ==
    /\ Compared
    /\ Len(Selection) >= 2
    /\ NamesFound
    /\ ComparedPair = NamedPair
    /\ ComparedPair # <<Selection[1], Selection[2]>>

\* C6 as stated: whenever fewer than two documents are available (fewer than two
\* keys with snippets or summaries), compare_policies raises the
\* not-enough-policies error and sets none of policy_gaps_structured,
\* baseline_policy, target_policy.
C6_InsufficientPoliciesRaised ==
    ("compare_policies" \in Range(executed) /\ Len(Available) < 2) =>
        /\ raised = "ValueError"
        /\ {"policy_gaps_structured", "baseline_policy", "target_policy"} \cap has = {}

----------------------------------------------------------------------------
(* Claims about the order of the stages and about failure *)

Stages ==
    <<"plan_evidence", "load_logs", "analyze_evidence", "build_policy_indexes",
      "select_policies", "read_policies", "compare_policies", "validate_vs_evidence",
      "finalize_report">>

\* C7: the stages that have executed are always an initial part of the nine-stage
\* order (so each ran at most once, none was skipped, retried or reordered), the
\* graph stands at the next stage of that order, and the run has ended only after
\* all nine ran, finalize_report last, with final_report set.
C7_FixedTotalOrder ==
    /\ Len(executed) <= Len(Stages)
    /\ executed = SubSeq(Stages, 1, Len(executed))
    /\ (raised = NoError /\ pc # END => pc = Stages[Len(executed) + 1])
    /\ (pc = END => executed = Stages /\ raised = NoError /\ "final_report" \in has)

C7_Witness == pc = END /\ executed = Stages

\* C8: the step in which a stage raises leaves every field already in the state
\* as it was and final_report unset, and after a raise nothing moves: no stage
\* executes, no field is written.
C8_FailFast ==
    [][ /\ (raised' # NoError =>
               /\ "final_report" \notin has'
               /\ \A k \in has : state'[k] = state[k])
        /\ (raised # NoError => UNCHANGED <<state, has, executed, pc, raised>>) ]_vars

C8_Witness ==
    /\ raised = "RuntimeError"
    /\ pc = "validate_vs_evidence"
    /\ executed = SubSeq(Stages, 1, 8)
    /\ "policy_gaps_structured" \in has
    /\ "final_report" \notin has

----------------------------------------------------------------------------
(* Claims about pre-seeded state *)

StartsStage(node) == pc = node /\ raised = NoError

\* C9 as stated: with policy_indexes and/or policy_texts populated when
\* build_policy_indexes starts, the stage leaves both as they were.
C9_SkipsWhenEitherSeeded ==
    [][ (StartsStage("build_policy_indexes")
         /\ (state.policy_indexes # <<>> \/ state.policy_texts # <<>>)) =>
            /\ state'.policy_indexes = state.policy_indexes
            /\ state'.policy_texts = state.policy_texts ]_vars

\* C9: with policy_indexes and policy_texts both populated when
\* build_policy_indexes starts, the stage recomputes nothing: it returns with the
\* state, both fields included, exactly as it was.
C9_SkipsWhenBothSeeded ==
    [][ (StartsStage("build_policy_indexes")
         /\ state.policy_indexes # <<>> /\ state.policy_texts # <<>>) =>
            /\ state' = state
            /\ has' = has
            /\ pc' = "select_policies" ]_vars

C9_Witness ==
    /\ pc = "select_policies"
    /\ state.policy_indexes # <<>>
    /\ state.policy_texts # <<>>
    /\ \A i \in 1..Len(writes) : writes[i][1] # "build_policy_indexes"

\* C10 as stated: with selected_policy_paths non-empty when select_policies starts,
\* whatever the number of paths, no oracle call is made and the selection is
\* unchanged.
C10_KeepsAnySelection ==
    [][ (StartsStage("select_policies") /\ Len(state.selected_policy_paths) >= 1) =>
            /\ llm_calls' = llm_calls
            /\ state'.selected_policy_paths = state.selected_policy_paths ]_vars

\* C10: with at least two paths in selected_policy_paths when select_policies
\* starts, no oracle call is made and the selection is unchanged.
C10_KeepsSelectionOfTwo ==
    [][ (StartsStage("select_policies") /\ Len(state.selected_policy_paths) >= 2) =>
            /\ llm_calls' = llm_calls
            /\ state' = state
            /\ pc' = "read_policies" ]_vars

C10_Witness ==
    /\ pc = "read_policies"
    /\ Len(state.selected_policy_paths) >= 2
    /\ "select_policies" \notin Range(llm_calls)
    /\ \A i \in 1..Len(writes) : writes[i][1] # "select_policies"

----------------------------------------------------------------------------
(* Claims about make_line_window_nodes *)

WindowsReturned == call.fn = "make_line_window_nodes" /\ call.returned

\* the nodes cut from page d
NodesOf(d) == SelectSeq(call.nodes, LAMBDA n : n.page = d.page)

Covered(d, k) ==
    \E j \in 1..Len(NodesOf(d)) :
        NodesOf(d)[j].line_start <= k /\ k <= NodesOf(d)[j].line_end

BlankLine(line) == Strip(line) = <<>>

\* C11 as stated: every line number 1..N of a page, blank lines included, lies in
\* the [line_start, line_end] range of at least one node.
C11_EveryLineCovered ==
    WindowsReturned =>
        \A p \in 1..Len(call.docs) :
            \A k \in 1..Len(SplitLines(call.docs[p].text)) : Covered(call.docs[p], k)

\* C11: every line of a page that is not blank (has a character other than
\* whitespace) lies in the [line_start, line_end] range of at least one node, for
\* every window_chars >= 1 and overlap >= 0.
C11_EveryTextLineCovered ==
    WindowsReturned =>
        \A p \in 1..Len(call.docs) :
            LET lines == SplitLines(call.docs[p].text)
            IN \A k \in 1..Len(lines) : ~BlankLine(lines[k]) => Covered(call.docs[p], k)

\* a text line behind a dropped blank window, covered by a later window
C11_Witness ==
    /\ WindowsReturned
    /\ Len(call.docs) = 1
    /\ LET lines == SplitLines(call.docs[1].text)
       IN /\ Len(lines) = 3
          /\ BlankLine(lines[1])
          /\ ~BlankLine(lines[3])
          /\ ~Covered(call.docs[1], 1)
          /\ Covered(call.docs[1], 3)
          /\ Len(call.nodes) >= 1

\* the text of lines a..b of a page, as a flushed buffer holds it
LinesText(lines, a, b) == Strip(Join([k \in 1..(b - a + 1) |-> Append(lines[a + k - 1], "\n")]))

\* C12 as stated: the text of every node is exactly the lines
\* line_start..line_end of its page (up to outer whitespace), for the first
\* window and for every window seeded by overlap.
C12_NodesLineAccurate ==
    WindowsReturned =>
        \A p \in 1..Len(call.docs) :
            LET lines == SplitLines(call.docs[p].text)
                nodes == NodesOf(call.docs[p])
            IN \A j \in 1..Len(nodes) :
                /\ 1 <= nodes[j].line_start
                /\ nodes[j].line_start <= nodes[j].line_end
                /\ nodes[j].line_end <= Len(lines)
                /\ nodes[j].text = LinesText(lines, nodes[j].line_start, nodes[j].line_end)

----------------------------------------------------------------------------
(* Claims about find_best_line_numbers *)

Resolved == call.fn = "find_best_line_numbers" /\ call.returned

Numbered == number_lines(call.text)
QuoteNorm == NormalizeSpaces(call.quote)

\* the numbers of the lines whose normalized text contains the normalized quote
ExactLines == {ln \in 1..Len(Numbered) : IsSubstring(QuoteNorm, NormalizeSpaces(Numbered[ln].txt))}

\* a list holds exactly the numbers of a set, each once, in ascending order
Ascending(lines, S) ==
    /\ Len(lines) = Cardinality(S)
    /\ Range(lines) = S
    /\ \A i, j \in 1..Len(lines) : i < j => lines[i] < lines[j]

\* C13 as stated: whenever at least one line's normalized text contains the
\* normalized quote, the result is exactly those lines in ascending order.
C13_ExactHitsForAnyQuote ==
    (Resolved /\ ExactLines # {}) => Ascending(call.lines, ExactLines)

\* C13: for a non-empty quote, whenever at least one line's normalized text
\* contains the normalized quote, the result is exactly the set of those lines,
\* in ascending line-number order, and no fuzzy candidate is added.
C13_ExactHitsTakePrecedence ==
    (Resolved /\ call.quote # <<>> /\ ExactLines # {}) => Ascending(call.lines, ExactLines)

C13_Witness ==
    /\ Resolved
    /\ QuoteNorm # <<>>
    /\ Cardinality(ExactLines) = 2
    /\ Len(Numbered) = 3
    /\ Ascending(call.lines, ExactLines)

\* the text of lines a..b of the document, whitespace-normalized as one text
SpanNorm(a, b) ==
    NormalizeSpaces(Join([k \in 1..(b - a + 1) |-> Append(Numbered[a + k - 1].txt, "\n")]))

\* the quote occurs in the document from line ln on: in the lines ln..m, and
\* not without line ln
Originates(ln) ==
    /\ QuoteNorm # <<>>
    /\ \E m \in ln..Len(Numbered) :
        /\ IsSubstring(QuoteNorm, SpanNorm(ln, m))
        /\ ln < m => ~IsSubstring(QuoteNorm, SpanNorm(ln + 1, m))

\* C14 as stated: for a non-empty quote that occurs, after normalization, in the
\* document's text, inside one line or across a line break, the result contains
\* a line number where the quote originates.
C14_FindsAnyOccurrence ==
    (Resolved /\ call.quote # <<>> /\ \E ln \in 1..Len(Numbered) : Originates(ln)) =>
        \E ln \in 1..Len(Numbered) : Originates(ln) /\ ln \in Range(call.lines)

\* C14: for a non-empty quote whose normalized text occurs inside the normalized
\* text of one line of the numbered document, the result contains that line's
\* number.
C14_FindsOccurrenceInLine ==
    (Resolved /\ call.quote # <<>>) => \A ln \in ExactLines : ln \in Range(call.lines)

\* a quote padded with whitespace, found in the second line alone
C14_Witness ==
    /\ Resolved
    /\ QuoteNorm # <<>>
    /\ QuoteNorm # call.quote
    /\ ExactLines = {2}
    /\ call.lines = <<2>>

\* C15 as stated: the result is empty for the empty quote and for a quote that is
\* empty after whitespace normalization, whatever the document; and empty for the
\* empty document, whatever the quote.
C15_NothingForQuoteWithoutContent ==
    Resolved =>
        /\ QuoteNorm = <<>> => call.lines = <<>>
        /\ Numbered = <<>> => call.lines = <<>>

----------------------------------------------------------------------------
(* Claims about normalize_llm_json *)

JsonReturned == call.fn = "normalize_llm_json" /\ call.returned

Trimmed == Strip(call.raw)
WholeParse == json_loads(Trimmed)

\* the positions of the braces and brackets that open, and the first of them
Opens == {i \in 1..Len(Trimmed) : Trimmed[i] \in {"{", "["}}
OpenStart == CHOOSE i \in Opens : \A j \in Opens : i <= j

\* the ends at which the text from OpenStart parses, and the last of them
ParsableEnds == {e \in OpenStart..Len(Trimmed) : json_loads(SubSeq(Trimmed, OpenStart, e)).ok}
LongestEnd == CHOOSE e \in ParsableEnds : \A f \in ParsableEnds : f <= e

\* a well-formed object or array after text without brace or bracket, before
\* any trailing text
BlockForm == Opens # {} /\ ParsableEnds # {}
LongestBlock == json_loads(SubSeq(Trimmed, OpenStart, LongestEnd)).value

SameValue(a, b) == a.t = b.t /\ a = b

C17_HardFailure ==
    JsonReturned =>
        /\ (~WholeParse.ok /\ ~BlockForm) => call.error = "ValueError" /\ call.value = None
        /\ call.tried <= (IF Opens = {} THEN 0 ELSE Len(Trimmed) - OpenStart + 1)

\* a block cut short after noise: every end is tried, none parses
C17_Witness ==
    /\ JsonReturned
    /\ Opens # {}
    /\ OpenStart > 1
    /\ ParsableEnds = {}
    /\ call.error = "ValueError"
    /\ call.tried = Len(Trimmed) - OpenStart + 1
    /\ call.tried >= 4

----------------------------------------------------------------------------
(* Claims about derive_required_controls *)

ControlsReturned == call.fn = "derive_required_controls" /\ call.returned

\* the summary read by the function, in lower case
EvidenceRead == Lower(IF call.given THEN call.evidence_summary ELSE <<>>)

\* how often a phrase occurs in a text
Occurrences(phrase, text) ==
    Cardinality({ i \in 0..(Len(text) - Len(phrase)) :
                    SubSeq(text, i + 1, i + Len(phrase)) = phrase })

TriggerCount ==
    Occurrences(<<"4", "6", "2", "5">>, EvidenceRead) + Occurrences(<<"f", "a", "i", "l", "e", "d", " ", "l", "o", "g", "o", "n">>, EvidenceRead)
    + Occurrences(<<"b", "r", "u", "t", "e", " ", "f", "o", "r", "c", "e">>, EvidenceRead) + Occurrences(<<"t", "1", "1", "1", "0">>, EvidenceRead)

FourControls ==
    <<"Account lockout policy", "SSH rate limiting / fail2ban",
      "Alerting on repeated failures", "MFA for privileged accounts">>

\* C18: once derive_required_controls has returned, the controls it stored are the
\* four fixed controls, each once and in the fixed order, when the summary contains
\* a trigger phrase in any letter case (however many and however often), and the
\* empty list when it contains none.
C18_FourControlsOnceOrNone ==
    ControlsReturned =>
        [i \in 1..Len(call.required) |-> call.required[i].control]
            = (IF TriggerCount > 0 THEN FourControls ELSE <<>>)

\* a summary with two different triggers, one in upper case, one of them twice
C18_Witness ==
    /\ ControlsReturned
    /\ Occurrences(<<"4", "6", "2", "5">>, EvidenceRead) = 2
    /\ Occurrences(<<"t", "1", "1", "1", "0">>, EvidenceRead) = 1
    /\ call.evidence_summary # EvidenceRead
    /\ Len(call.required) = 4

----------------------------------------------------------------------------
(* Claims about what the report shows of the verification *)

\* the material finalize_report hands to the oracle for a list of structured gaps:
\* the bullets compare_policies stored for them and the pre-rendered citations
ReportMaterial(gaps_struct) ==
    [gaps_hr |-> [i \in 1..Len(gaps_struct) |->
                     RangeBullet(gaps_struct[i], state.baseline_policy,
                                 state.target_policy)],
     citations |-> citations_block(gaps_struct, state.baseline_policy,
                                   state.target_policy)]

\* the stored gaps with gap i marked verified
MarkedVerified(i) == [state.policy_gaps_structured EXCEPT ![i].__verified = TRUE]

\* C19: when a gap stored by the snippet-based comparison is unverified, the
\* comparison has not raised, and the bullets and the citation block built from the
\* stored gaps differ from those built from the same gaps with that gap verified.
C19_UnverifiedGapShows ==
    ComparedBySnippets =>
        \A i \in 1..Len(state.policy_gaps_structured) :
            ~state.policy_gaps_structured[i].__verified =>
                /\ (executed[Len(executed)] = "compare_policies" => raised = NoError)
                /\ state.policy_gaps = ReportMaterial(state.policy_gaps_structured).gaps_hr
                /\ ReportMaterial(state.policy_gaps_structured)
                       # ReportMaterial(MarkedVerified(i))

----------------------------------------------------------------------------
(* Claims about failures of text extraction *)

\* build_policy_indexes is the stage that ran last
IndexesJustRan == executed # <<>> /\ executed[Len(executed)] = "build_policy_indexes"

\* the listed paths whose file exists and can be read
Readable == Range(Found(Get("policy_paths", <<>>), fs.files))

\* the stage built its indexes rather than keeping the ones it was given
BuiltHere == <<"build_policy_indexes", "policy_texts">> \in Range(writes)

\* C20: when build_policy_indexes has run, it has not raised, and if it built the
\* indexes itself then policy_texts and policy_indexes hold exactly the listed
\* paths that exist and whose text can be extracted, whether the other paths are
\* missing or unreadable.
C20_ExtractionFailureAbsorbed ==
    IndexesJustRan =>
        /\ raised = NoError
        /\ BuiltHere =>
              /\ Range(DictKeys(state.policy_texts)) = Readable
              /\ Range(DictKeys(state.policy_indexes)) = Readable

----------------------------------------------------------------------------
(* Claims about the lines carried from one window into the next *)

\* the last n lines of a buffer, none when n = 0
LastLines(buf, n) == SubSeq(buf, Len(buf) - n + 1, Len(buf))

Least(a, b) == IF a < b THEN a ELSE b

\* C21: at every flush of make_line_window_nodes the next buffer is seeded with
\* exactly the last min(overlap, k) lines of the flushed buffer of k lines; with
\* overlap = 0 it is seeded with no line.
C21_SeedIsLastOverlapLines ==
    WindowsReturned =>
        \A j \in 1..Len(call.seeds) :
            call.seeds[j].seeded
                = LastLines(call.seeds[j].flushed,
                            Least(call.overlap, Len(call.seeds[j].flushed)))

----------------------------------------------------------------------------
(* Claims about the fuzzy fallback of the resolver *)

\* the numbers of the lines whose normalized text is that of line ln
SameNormalized(ln) ==
    {k \in 1..Len(Numbered) :
        NormalizeSpaces(Numbered[k].txt) = NormalizeSpaces(Numbered[ln].txt)}

\* C22: when no line contains the quote, every line number the fuzzy fallback
\* returns is the smallest among the lines sharing its normalized text.
C22_FuzzyMapsToFirstLine ==
    (Resolved /\ call.quote # <<>> /\ ExactLines = {}) =>
        \A i \in 1..Len(call.lines) :
            \A k \in SameNormalized(call.lines[i]) : call.lines[i] <= k

----------------------------------------------------------------------------
(* Claims about the fields of the state across a run *)

\* the fields assigned so far, in the order of assignment
WrittenKeys == [i \in 1..Len(writes) |-> writes[i][2]]

\* the fields assigned by the step being taken
NewlyWritten == {writes'[i][2] : i \in (Len(writes) + 1)..Len(writes')}

\* C23: in every step of the graph the stage assigns no field that a stage has
\* assigned before in the run, and it hands on the state it received: every field
\* it does not assign keeps its value, and no field is removed.
C23_FieldsAdditive ==
    [][ /\ \A i, j \in 1..Len(writes') : i # j => WrittenKeys'[i] # WrittenKeys'[j]
        /\ SubSeq(writes', 1, Len(writes)) = writes
        /\ has \subseteq has'
        /\ \A key \in (DOMAIN state) \ NewlyWritten : state'[key] = state[key] ]_vars

\* a run through all nine stages that assigned fields in compare_policies and after
C23_Witness ==
    /\ pc = END
    /\ Len(executed) = 9
    /\ \E i \in 1..Len(writes) : writes[i] = <<"compare_policies", "policy_gaps">>
    /\ \E i \in 1..Len(writes) : writes[i] = <<"finalize_report", "final_report">>
    /\ \E i \in 1..Len(writes) : writes[i] = <<"build_policy_indexes", "policy_texts">>

----------------------------------------------------------------------------
(* Claims about the error tags in the state *)

\* the error tags compare_policies put on the claimed refs of gap i
TagsOf(i) ==
    { TagOf(frame.gaps[i].cis_refs[k]) : k \in 1..Len(frame.gaps[i].cis_refs) }
    \cup { TagOf(frame.gaps[i].pan_refs[k]) : k \in 1..Len(frame.gaps[i].pan_refs) }

\* the error tags the stored gap i carries on its refs
StoredTagsOf(i) ==
    LET gap == state.policy_gaps_structured[i]
    IN { TagOf(gap.refs.policy_a[k]) : k \in 1..Len(gap.refs.policy_a) }
       \cup { TagOf(gap.refs.policy_b[k]) : k \in 1..Len(gap.refs.policy_b) }

\* C24: after the snippet-based comparison, every error tag put on a claimed ref
\* of a gap (no_matching_snippet or quote_not_in_snippet) is carried by a ref of
\* that gap in policy_gaps_structured, next to the gap's verified boolean.
C24_ErrorTagsStored ==
    ComparedBySnippets =>
        \A i \in 1..Len(state.policy_gaps_structured) :
            /\ "__verified" \in DOMAIN state.policy_gaps_structured[i]
            /\ (TagsOf(i) \ {""}) \subseteq StoredTagsOf(i)

----------------------------------------------------------------------------
(* Claims about the selection of the policies *)

\* select_policies asked the oracle and stored a selection
SelectedByOracleCall == <<"select_policies", "selected_policy_paths">> \in Range(writes)

\* C25: when select_policies has stored a selection, it is the oracle's array cut
\* to max_policy_choices entries if the oracle answered with a JSON array, the
\* first max_policy_choices keys of policy_texts otherwise, and in both cases it
\* holds at most max_policy_choices paths.
C25_OraclePickTaken ==
    SelectedByOracleCall =>
        LET max_k == Get("max_policy_choices", DefaultMaxPolicyChoices)
            candidates == DictKeys(Get("policy_texts", <<>>))
        IN /\ state.selected_policy_paths =
                  (IF llm.select.kind = "json_list" THEN Take(llm.select.value, max_k)
                   ELSE Take(candidates, max_k))
           /\ Len(state.selected_policy_paths) <= max_k

----------------------------------------------------------------------------
(* Claims about the citations of the summary-based comparison *)

\* compare_policies returned along the summary-based path
ComparedBySummaries == frame.path = "B"

\* the numbered lines of the text of a policy, none when it has no text
NumberedText(key) == number_lines(DictGet(Get("policy_texts", <<>>), key, <<>>))

\* the refs the oracle gave for gap i and the stored refs of gap i agree as C26
\* requires, for the refs of one policy
ResolvedAgainst(key, given, stored) ==
    /\ Len(stored) = Len(given)
    /\ \A k \in 1..Len(given) :
          /\ stored[k].line_hint = given[k].line_hint
          /\ stored[k].line_numbers =
                 (IF NumberedText(key) # <<>>
                  THEN find_best_line_numbers(NumberedText(key), given[k].line_hint)
                  ELSE <<>>)
          /\ Range(stored[k].line_numbers) \subseteq 1..Len(NumberedText(key))

\* C26: after the summary-based comparison, the line numbers of every stored ref
\* are those find_best_line_numbers gives for the ref's hint in the numbered text
\* of its policy (none when the policy has no text), whatever line numbers the
\* oracle supplied, and each is a line number of that text.
C26_LinesResolvedFromText ==
    ComparedBySummaries =>
        /\ Len(state.policy_gaps_structured) = Len(llm.compare.value)
        /\ \A i \in 1..Len(llm.compare.value) :
              /\ ResolvedAgainst(state.baseline_policy, llm.compare.value[i].refs.policy_a,
                                 state.policy_gaps_structured[i].refs.policy_a)
              /\ ResolvedAgainst(state.target_policy, llm.compare.value[i].refs.policy_b,
                                 state.policy_gaps_structured[i].refs.policy_b)

\* a ref for which the oracle supplied a line number that is replaced, and a ref
\* whose hint is found in the text of its policy
C26_Witness ==
    /\ ComparedBySummaries
    /\ \E i \in 1..Len(llm.compare.value) :
          /\ \E k \in 1..Len(llm.compare.value[i].refs.policy_b) :
                /\ llm.compare.value[i].refs.policy_b[k].line_numbers # <<>>
                /\ state.policy_gaps_structured[i].refs.policy_b[k].line_numbers
                       # llm.compare.value[i].refs.policy_b[k].line_numbers
          /\ \E k \in 1..Len(state.policy_gaps_structured[i].refs.policy_a) :
                state.policy_gaps_structured[i].refs.policy_a[k].line_numbers # <<>>

----------------------------------------------------------------------------
(* Claims about the two policies compared *)

\* compare_policies completed and recorded the pair it compared
PairRecorded == <<"compare_policies", "baseline_policy">> \in Range(writes)

\* C27: whenever compare_policies has completed, the baseline_policy and the
\* target_policy it recorded are two distinct policy keys.
C27_DistinctPolicies ==
    PairRecorded => state.baseline_policy # state.target_policy

============================================================================
